---- MODULE Spec2Model ----
(***************************************************************************)
(* Model of the uring-playground reactor (crates/uring-reactor/src/lib.rs) *)
(* together with the io_uring ring and the slab it is built on.            *)
(*                                                                         *)
(* The reactor owns a slab of per-operation State values and an io_uring   *)
(* ring.  Tasks call submit_operation and drive_operation, the poll loop   *)
(* calls tick, and the kernel consumes submission entries and posts        *)
(* completion entries.                                                     *)
(***************************************************************************)
EXTENDS Integers, Sequences, FiniteSets, TLC

(* ----------------------------- bounds --------------------------------- *)

\* total number of operations submitted in a behaviour
MaxOps == 2

\* total number of completion entries the kernel posts in a behaviour
MaxCqes == 3

\* entries of the submission ring (the construction parameter of the ring)
SqEntries == 1

\* submissions a stream attempts for its operation (the first, and those
\* that follow a failed one)
MaxBuilds == 2

\* completion results run over -MaxResult..MaxResult
MaxResult == 3

\* number of tasks spawned on the executor in a behaviour
MaxSpawns == 2

\* number of times the waker of one task is woken
MaxWakes == 2

\* number of polls one block_on call makes of its future
MaxPolls == 3

\* number of guards one cell grants in a behaviour
MaxGrants == 2

\* number of submit_operation calls the adapters make in a behaviour
MaxSqes == 3

\* number of guards a cell hands out to the calls of a thread, and the
\* depth of calls the thread nests
MaxAcquires == 3
MaxDepth == 3

\* the kernel sizes the completion ring at twice the submission ring
CqEntries == 2 * SqEntries

\* the tasks that call into the reactor, each with its own waker.  The
\* reactor only ever compares two wakers (will_wake), so two tasks produce
\* both outcomes of every comparison.
Tasks == {1, 2}

Serials == 1..MaxOps

(* --------------------------- State (enum) ----------------------------- *)

\* a free slab entry, linking to the next free key
Vacant(next) == [tag |-> "Vacant", next |-> next]

Waiting(waker) == [tag |-> "Waiting", waker |-> waker]

Completed(entry) == [tag |-> "Completed", entry |-> entry]

Unclaimed(entries) == [tag |-> "Unclaimed", entries |-> entries]

\* cqueue::more(entry.flags())
more(entry) == entry.more

\* Waker::will_wake: both wakers wake the same task
will_wake(waker, other) == waker = other

\* placeholder for "no completion entry" in the call record
NoEntry == [user_data |-> -1, more |-> FALSE, serial |-> 0, shot |-> 0]

(* ------------------------------ Slab ---------------------------------- *)
(* Slab<State>: a vector of entries with an intrusive free list.  Keys are *)
(* 0-based; key k is stored at position k + 1 of the sequence.             *)

SlabNew == [entries |-> << >>, next |-> 0]

SlabContains(slab, key) ==
    /\ key >= 0
    /\ key < Len(slab.entries)
    /\ slab.entries[key + 1].tag # "Vacant"

SlabGet(slab, key) == slab.entries[key + 1]

SlabSet(slab, key, val) ==
    [slab EXCEPT !.entries = [slab.entries EXCEPT ![key + 1] = val]]

\* Slab::insert: take the head of the free list, or grow the vector
SlabInsert(slab, val) ==
    IF slab.next = Len(slab.entries)
    THEN [entries |-> Append(slab.entries, val), next |-> slab.next + 1]
    ELSE [entries |-> [slab.entries EXCEPT ![slab.next + 1] = val],
          next |-> slab.entries[slab.next + 1].next]

\* Slab::remove: the key becomes the head of the free list
SlabRemove(slab, key) ==
    [entries |-> [slab.entries EXCEPT ![key + 1] = Vacant(slab.next)],
     next |-> key]

\* keys of the occupied entries
SlabKeys(slab) == {k \in 0..(Len(slab.entries) - 1) : SlabContains(slab, k)}

(* ----------------------------- variables ------------------------------ *)

VARIABLES
    operations,  \* Reactor::operations, the slab of State
    sq,          \* submission ring: entries pushed and not yet consumed
    cq,          \* completion ring: entries posted and not yet drained
    kernel,      \* operations the kernel has consumed and not yet finished
    issued,      \* number of submit_operation calls made so far
    posted,      \* number of completion entries the kernel has posted so far
    futures,     \* per submission: the handle its caller holds and its fate
    drained,     \* per submission: completion entries tick has drained
    delivered,   \* per submission: completion entries drive returned Ready
    parked,      \* per submission: task that last submitted/drove, woken since
    last,        \* record of the last call into the reactor
    panicked,    \* a panic has unwound the program
    wrappers,    \* the Oneshot futures and Multishot streams created so far
    polled,      \* record of the last call on a future or stream
    interpreted, \* record of the last process_completion call of the catalog
    tasks,       \* Executor.tasks: the FIFO of runnables, by task
    runnables,   \* per spawned task: its scheduling state and history
    ticking,     \* Executor::tick is between two iterations of its loop
    ran,         \* record of the last call on the executor
    loops,       \* per block_on call: where its loop is and what it did
    stepped,     \* record of the last call a block_on loop made
    cells,       \* per DangerCell: its borrowed flag and its guards
    accessed,    \* record of the last call on a cell or a guard
    frames,      \* the calls the thread is in, outermost first
    pollio,      \* PollIo of crates/uring-adapter: its four handles
    shared,      \* PollIo of src/adapter.rs: its one handle
    pending,     \* operations of the adapters the kernel has not finished
    submitted,   \* the submit_operation calls of the adapters, in order
    io           \* record of the last call on an adapter

\* the reactor, its ring and the kernel behind it
reactorVars == <<operations, sq, cq, kernel, issued, posted, futures, drained,
                 delivered, parked, last, panicked>>

\* the futures and streams of crates/uring-operation
facadeVars == <<wrappers, polled>>

\* the operations of crates/uring-operation (io, net, common)
catalogVars == <<interpreted>>

\* the executor of src/executor.rs and the tasks spawned on it
executorVars == <<tasks, runnables, ticking, ran>>

\* the poll loops of block_on (src/executor.rs)
blockVars == <<loops, stepped>>

\* the exclusive-access cells of crates/local-danger-cell
cellVars == <<cells, accessed, frames>>

\* the adapters (crates/uring-adapter, src/adapter.rs) and the operations
\* they have in flight
adapterVars == <<pollio, shared, pending, submitted, io>>

\* the reactor but for its slot table
ringVars == <<sq, cq, kernel, issued, posted, futures, drained, delivered,
              parked, last, panicked>>

\* what the layers above leave alone
outerVars == <<blockVars, cellVars, adapterVars>>

vars == <<reactorVars, facadeVars, catalogVars, executorVars, outerVars>>

NoFuture == [handle |-> -1, state |-> "none"]

NoPark == [task |-> 0, woken |-> FALSE]

Call(call, waker, handle, serial, ret, entry, wakes, pushes, flushes, syscall) ==
    [call |-> call, waker |-> waker, handle |-> handle, serial |-> serial,
     ret |-> ret, entry |-> entry, wakes |-> wakes, pushes |-> pushes,
     flushes |-> flushes, syscall |-> syscall]

NoCall(call) == Call(call, 0, -1, 0, "None", NoEntry, << >>, 0, 0, "none")

\* a position of `wrappers` no future or stream has taken yet
NoWrapper == [kind |-> "none", multi |-> FALSE, task |-> 0, handle |-> -1,
              serial |-> 0, finished |-> FALSE, builds |-> 0, state |-> "none"]

\* placeholder for "no item" in the record of a poll
NoItem == [tag |-> "none", entry |-> NoEntry]

Polled(call, id, ret, item, builds, reactor) ==
    [call |-> call, id |-> id, ret |-> ret, item |-> item, builds |-> builds,
     reactor |-> reactor]

NoPoll == Polled("none", 0, "None", NoItem, 0, "none")

\* no future or stream exists
FacadeNew ==
    /\ wrappers = [w \in Serials |-> NoWrapper]
    /\ polled = NoPoll

\* Reactor::new
ReactorNew ==
    /\ operations = SlabNew
    /\ sq = << >>
    /\ cq = << >>
    /\ kernel = {}
    /\ issued = 0
    /\ posted = 0
    /\ futures = [s \in Serials |-> NoFuture]
    /\ drained = [s \in Serials |-> << >>]
    /\ delivered = [s \in Serials |-> << >>]
    /\ parked = [s \in Serials |-> NoPark]
    /\ last = NoCall("new")
    /\ panicked = FALSE

\* no operation has processed a completion
NoInterpret == [op |-> "none"]

CatalogNew == interpreted = NoInterpret

Spawns == 1..MaxSpawns

\* a task not spawned yet.  state: "idle" (waiting for a wake), "scheduled"
\* (woken, its runnable exists) or "completed"; polls, pushes, wakes: the
\* times its future was polled, its runnable was pushed on the queue and
\* its waker was woken; first: what its first poll returned
NoRunnable == [state |-> "none", polls |-> 0, pushes |-> 0, wakes |-> 0,
               first |-> "none"]

Ran(call, task, outcome) == [call |-> call, task |-> task, outcome |-> outcome]

\* Executor::new
ExecutorNew ==
    /\ tasks = << >>
    /\ runnables = [t \in Spawns |-> NoRunnable]
    /\ ticking = FALSE
    /\ ran = Ran("new", 0, "None")

\* the threads that call block_on, each with a future and a ticker of its own
Loops == {1, 2}

\* what a future resolves with, and what a ticker fails with
Values == {"a", "b"}

NoReturn == [tag |-> "none", value |-> "none"]

\* a block_on call at the top of its loop, about to poll for the first time
BlockOnNew == [pc |-> "poll", polls |-> 0, ticks |-> 0, ret |-> NoReturn]

Stepped(loop, call, outcome) == [loop |-> loop, call |-> call, outcome |-> outcome]

BlockNew ==
    /\ loops = [l \in Loops |-> BlockOnNew]
    /\ stepped = Stepped(0, "none", NoReturn)

\* the cells of the program: Reactor.ring, Reactor.operations, Executor.tasks
Cells == {"ring", "operations", "tasks"}

\* DangerCell::new: not borrowed; live: the guards alive, granted: the
\* guards handed out so far
DangerCellNew == [borrowed |-> FALSE, live |-> 0, granted |-> 0]

Accessed(call, cell, ret) == [call |-> call, cell |-> cell, ret |-> ret]

CellsNew ==
    /\ cells = [c \in Cells |-> DangerCellNew]
    /\ accessed = Accessed("new", "none", "None")
    /\ frames = << >>

\* PollIo::new of crates/uring-adapter: None is -1; file is the OwnedFd,
\* "owned" until its drop closes the descriptor
PollIoNew ==
    [read |-> -1, write |-> -1, shutdown |-> -1, close |-> -1, file |-> "owned"]

\* PollIo::new of src/adapter.rs
SharedNew == [operation |-> -1]

NoOutput == [tag |-> "none", kind |-> "none", n |-> 0]

\* the record of a call on an adapter: what it returned, the handle it
\* drove and the entry it got, the read(2) calls and the submit_operation
\* calls it made, and whether it woke its own waker
Io(call, ret, out, drove, entry, syscalls, sqes, selfwake) ==
    [call |-> call, ret |-> ret, out |-> out, drove |-> drove, entry |-> entry,
     syscalls |-> syscalls, sqes |-> sqes, selfwake |-> selfwake]

AdapterNew ==
    /\ pollio = PollIoNew
    /\ shared = SharedNew
    /\ pending = {}
    /\ submitted = << >>
    /\ io = Io("new", "None", NoOutput, -1, NoEntry, 0, 0, FALSE)

Init ==
    /\ ReactorNew
    /\ FacadeNew
    /\ CatalogNew
    /\ ExecutorNew
    /\ BlockNew
    /\ CellsNew
    /\ AdapterNew

(* ------------------------------ the ring ------------------------------ *)

\* range of a sequence
Range(seq) == {seq[i] : i \in 1..Len(seq)}

\* IoUring::split: the submission view caches head and tail of the ring at
\* the time of the split; its length is not refreshed without sync()
SplitSubmission(queue) == [len |-> Len(queue)]

\* SubmissionQueue::is_full on the view
SqIsFull(view) == view.len = SqEntries

\* in-kernel record of a consumed submission entry
InFlight(sqe) == [user_data |-> sqe.user_data, multi |-> sqe.multi,
                   serial |-> sqe.serial, shots |-> 0]

\* Submitter::submit: the kernel consumes every entry of the submission ring
Consume(inflight, queue) == inflight \cup {InFlight(queue[i]) : i \in 1..Len(queue)}

\* the completion entry the kernel posts next for an in-flight operation
Cqe(k, m) == [user_data |-> k.user_data, more |-> m, serial |-> k.serial,
              shot |-> k.shots + 1]

\* only a multishot operation may announce more entries (IORING_CQE_F_MORE)
MoreChoices(k) == IF k.multi THEN BOOLEAN ELSE {FALSE}

\* the kernel's table after posting one entry for k
Posted(inflight, k, m) ==
    IF m THEN (inflight \ {k}) \cup {[k EXCEPT !.shots = k.shots + 1]}
    ELSE inflight \ {k}

\* a wake issued for the slot of a key: the waker it signals
WakeOf(key, waker) == [key |-> key, waker |-> waker]

\* the wakes a call issued mark the operations whose slot they were issued
\* for, if the woken task is the one parked on the operation
Wake(park, handles, wakes) ==
    [s \in Serials |->
        IF WakeOf(handles[s].handle, park[s].task) \in Range(wakes)
        THEN [park[s] EXCEPT !.woken = TRUE]
        ELSE park[s]]

(* ------------------------- submit_operation --------------------------- *)

SubmitResult(slab, queue, inflight, ret, handle, pushes, flushes) ==
    [operations |-> slab, sq |-> queue, kernel |-> inflight, ret |-> ret,
     handle |-> handle, pushes |-> pushes, flushes |-> flushes]

\* variant: the entry's user data is left as the caller built it (0)
SubmitKeepsUserData(slab, queue, inflight, multi, waker, serial, submitOk) ==
    LET index == slab.next
        inserted == SlabInsert(slab, Waiting(waker))
        entry == [user_data |-> 0, multi |-> multi, serial |-> serial]
        view == SplitSubmission(queue)
    IN  IF ~SqIsFull(view)
        THEN SubmitResult(inserted, Append(queue, entry), inflight, "Ok", index, 1, 0)
        ELSE IF ~submitOk
        THEN SubmitResult(inserted, queue, inflight, "Err", -1, 1, 1)
        ELSE IF ~SqIsFull(view)
             THEN SubmitResult(inserted, <<entry>>, Consume(inflight, queue), "Ok", index, 2, 1)
             ELSE SubmitResult(inserted, << >>, Consume(inflight, queue), "Err", -1, 2, 1)

\* variant: a full ring fails the call at once, without the flush and retry
SubmitNoFlush(slab, queue, inflight, multi, waker, serial, submitOk) ==
    LET index == slab.next
        inserted == SlabInsert(slab, Waiting(waker))
        entry == [user_data |-> index, multi |-> multi, serial |-> serial]
        view == SplitSubmission(queue)
    IN  IF ~SqIsFull(view)
        THEN SubmitResult(inserted, Append(queue, entry), inflight, "Ok", index, 1, 0)
        ELSE SubmitResult(inserted, queue, inflight, "Err", -1, 1, 0)

\* Reactor::submit_operation.  submitOk is the outcome of the io_uring_enter
\* syscall behind submitter.submit(), should the call reach it.
Submit(slab, queue, inflight, multi, waker, serial, submitOk) ==
    LET index == slab.next
        inserted == SlabInsert(slab, Waiting(waker))
        entry == [user_data |-> index, multi |-> multi, serial |-> serial]
        view == SplitSubmission(queue)
    IN  IF ~SqIsFull(view)
        THEN SubmitResult(inserted, Append(queue, entry), inflight, "Ok", index, 1, 0)
        ELSE IF ~submitOk
        THEN SubmitResult(inserted, queue, inflight, "Err", -1, 1, 1)
        ELSE \* the kernel has emptied the ring, the view was not synced
             IF ~SqIsFull(view)
             THEN SubmitResult(inserted, <<entry>>, Consume(inflight, queue), "Ok", index, 2, 1)
             ELSE SubmitResult(inserted, << >>, Consume(inflight, queue), "Err", -1, 2, 1)

submit_operation(multi, waker, submitOk) ==
    /\ ~panicked
    /\ issued < MaxOps
    /\ LET serial == issued + 1
           r == Submit(operations, sq, kernel, multi, waker, serial, submitOk)
       IN  /\ operations' = r.operations
           /\ sq' = r.sq
           /\ kernel' = r.kernel
           /\ issued' = serial
           /\ futures' = [futures EXCEPT ![serial] =
                  [handle |-> r.handle,
                   state |-> IF r.ret = "Ok" THEN "held" ELSE "failed"]]
           /\ parked' = [parked EXCEPT ![serial] =
                  IF r.ret = "Ok" THEN [task |-> waker, woken |-> FALSE]
                  ELSE NoPark]
           /\ last' = Call("submit", waker, r.handle, serial, r.ret, NoEntry,
                           << >>, r.pushes, r.flushes,
                           IF r.flushes > 0 THEN "submit" ELSE "none")
    /\ UNCHANGED <<cq, posted, drained, delivered, panicked>>

\* Reactor::submit_operation called again for the operation of an earlier
\* call that returned Err (its caller kept the operation and retries)
resubmit_operation(serial, multi, waker, submitOk) ==
    /\ ~panicked
    /\ futures[serial].state = "failed"
    /\ LET r == Submit(operations, sq, kernel, multi, waker, serial, submitOk)
       IN  /\ operations' = r.operations
           /\ sq' = r.sq
           /\ kernel' = r.kernel
           /\ futures' = [futures EXCEPT ![serial] =
                  [handle |-> r.handle,
                   state |-> IF r.ret = "Ok" THEN "held" ELSE "failed"]]
           /\ parked' = [parked EXCEPT ![serial] =
                  IF r.ret = "Ok" THEN [task |-> waker, woken |-> FALSE]
                  ELSE NoPark]
           /\ last' = Call("submit", waker, r.handle, serial, r.ret, NoEntry,
                           << >>, r.pushes, r.flushes,
                           IF r.flushes > 0 THEN "submit" ELSE "none")
    /\ UNCHANGED <<cq, issued, posted, drained, delivered, panicked>>

(* -------------------------- drive_operation --------------------------- *)

DriveResult(slab, ret, entry, wakes) ==
    [operations |-> slab, ret |-> ret, entry |-> entry, wakes |-> wakes]

\* variant: the stored waker is never replaced
DriveWaitingKeepsWaker(slab, handle, waker) ==
    DriveResult(slab, "Pending", NoEntry, << >>)

\* match arm State::Waiting(waker)
DriveWaiting(slab, handle, waker) ==
    LET slot == SlabGet(slab, handle)
    IN  DriveResult(IF ~will_wake(slot.waker, waker)
                    THEN SlabSet(slab, handle, Waiting(waker))
                    ELSE slab,
                    "Pending", NoEntry, << >>)

\* variant: the terminal entry is returned but its slot is not removed
DriveCompletedKeepsSlot(slab, handle, waker) ==
    DriveResult(SlabSet(slab, handle, Waiting(waker)), "Ready",
                SlabGet(slab, handle).entry, << >>)

\* variant: an entry with MORE set is returned but the slot keeps holding it
DriveCompletedKeepsEntry(slab, handle, waker) ==
    LET slot == SlabGet(slab, handle)
    IN  IF ~more(slot.entry)
        THEN DriveResult(SlabRemove(slab, handle), "Ready", slot.entry, << >>)
        ELSE DriveResult(slab, "Ready", slot.entry, << >>)

\* match arm State::Completed(entry)
DriveCompleted(slab, handle, waker) ==
    LET slot == SlabGet(slab, handle)
    IN  IF ~more(slot.entry)
        THEN DriveResult(SlabRemove(slab, handle), "Ready", slot.entry, << >>)
        ELSE DriveResult(SlabSet(slab, handle, Waiting(waker)),
                         "Ready", slot.entry, << >>)

\* variant: the last queued entry leaves the slot Unclaimed, its queue empty
DriveUnclaimedKeepsEmptyQueue(slab, handle, waker) ==
    LET slot == SlabGet(slab, handle)
    IN  IF slot.entries = << >>
        THEN DriveResult(slab, "Pending", NoEntry, << >>)
        ELSE LET entry == Head(slot.entries)
                 popped == SlabSet(slab, handle, Unclaimed(Tail(slot.entries)))
             IN  IF Tail(slot.entries) # << >>
                 THEN DriveResult(popped, "Ready", entry, <<WakeOf(handle, waker)>>)
                 ELSE IF ~more(entry)
                 THEN DriveResult(SlabRemove(popped, handle), "Ready", entry, << >>)
                 ELSE DriveResult(popped, "Ready", entry, << >>)

\* variant: the slot is removed as soon as the queue runs empty
DriveUnclaimedRemovesEarly(slab, handle, waker) ==
    LET slot == SlabGet(slab, handle)
    IN  IF slot.entries = << >>
        THEN DriveResult(slab, "Pending", NoEntry, << >>)
        ELSE LET entry == Head(slot.entries)
                 popped == SlabSet(slab, handle, Unclaimed(Tail(slot.entries)))
             IN  IF Tail(slot.entries) # << >>
                 THEN DriveResult(popped, "Ready", entry, <<WakeOf(handle, waker)>>)
                 ELSE DriveResult(SlabRemove(popped, handle), "Ready", entry, << >>)

\* variant: no self-wake while entries remain queued
DriveUnclaimedNoSelfWake(slab, handle, waker) ==
    LET slot == SlabGet(slab, handle)
    IN  IF slot.entries = << >>
        THEN DriveResult(slab, "Pending", NoEntry, << >>)
        ELSE LET entry == Head(slot.entries)
                 popped == SlabSet(slab, handle, Unclaimed(Tail(slot.entries)))
             IN  IF Tail(slot.entries) # << >>
                 THEN DriveResult(popped, "Ready", entry, << >>)
                 ELSE IF ~more(entry)
                 THEN DriveResult(SlabRemove(popped, handle), "Ready", entry, << >>)
                 ELSE DriveResult(SlabSet(popped, handle, Waiting(waker)),
                                  "Ready", entry, << >>)

\* match arm State::Unclaimed(entries)
DriveUnclaimed(slab, handle, waker) ==
    LET slot == SlabGet(slab, handle)
    IN  IF slot.entries = << >>
        THEN DriveResult(slab, "Pending", NoEntry, << >>)
        ELSE LET entry == Head(slot.entries)
                 popped == SlabSet(slab, handle, Unclaimed(Tail(slot.entries)))
             IN  IF Tail(slot.entries) # << >>
                 THEN DriveResult(popped, "Ready", entry, <<WakeOf(handle, waker)>>)
                 ELSE IF ~more(entry)
                 THEN DriveResult(SlabRemove(popped, handle), "Ready", entry, << >>)
                 ELSE DriveResult(SlabSet(popped, handle, Waiting(waker)),
                                  "Ready", entry, << >>)

\* Reactor::drive_operation on a handle whose slot is present
Drive(slab, handle, waker) ==
    LET slot == SlabGet(slab, handle)
    IN  CASE slot.tag = "Waiting" -> DriveWaiting(slab, handle, waker)
          [] slot.tag = "Completed" -> DriveCompleted(slab, handle, waker)
          [] slot.tag = "Unclaimed" -> DriveUnclaimed(slab, handle, waker)

\* the future of submission `serial`, polled by task `waker`, drives its handle
drive_operation(serial, waker) ==
    /\ ~panicked
    /\ futures[serial].state = "held"
    /\ LET handle == futures[serial].handle
       IN  IF ~SlabContains(operations, handle)
           THEN \* guard.get_mut(..).unwrap()
                /\ panicked' = TRUE
                /\ last' = Call("drive", waker, handle, serial, "Panic", NoEntry,
                                << >>, 0, 0, "none")
                /\ UNCHANGED <<operations, futures, delivered, parked>>
           ELSE LET r == Drive(operations, handle, waker)
                IN  /\ operations' = r.operations
                    /\ delivered' = [delivered EXCEPT ![serial] =
                           IF r.ret = "Ready" THEN Append(@, r.entry) ELSE @]
                    /\ futures' = [futures EXCEPT ![serial] =
                           IF r.ret = "Ready" /\ ~more(r.entry)
                           THEN [@ EXCEPT !.handle = -1, !.state = "done"]
                           ELSE @]
                    /\ parked' = Wake([parked EXCEPT ![serial] =
                                          IF r.ret = "Ready" /\ ~more(r.entry)
                                          THEN NoPark
                                          ELSE [task |-> waker, woken |-> FALSE]],
                                      futures, r.wakes)
                    /\ last' = Call("drive", waker, handle, serial, r.ret, r.entry,
                                    r.wakes, 0, 0, "none")
                    /\ UNCHANGED panicked
    /\ UNCHANGED <<sq, cq, kernel, issued, posted, drained>>

(* ------------------------------- tick --------------------------------- *)

FoldResult(slab, wakes, panic) ==
    [operations |-> slab, wakes |-> wakes, panic |-> panic]

\* variant: the slot completes but its waker is dropped unwoken
FoldWaitingNoWake(slab, key, entry) ==
    FoldResult(SlabSet(slab, key, Completed(entry)), << >>, FALSE)

\* match arm State::Waiting(_): the slot completes and its waker is woken
FoldWaiting(slab, key, entry) ==
    FoldResult(SlabSet(slab, key, Completed(entry)),
               <<WakeOf(key, SlabGet(slab, key).waker)>>, FALSE)

\* variant: the new entry is queued in front of the previous one
FoldCompletedReversed(slab, key, entry) ==
    FoldResult(SlabSet(slab, key, Unclaimed(<<entry, SlabGet(slab, key).entry>>)),
               << >>, FALSE)

\* match arm State::Completed(_): the previous entry and this one queue up
FoldCompleted(slab, key, entry) ==
    FoldResult(SlabSet(slab, key, Unclaimed(<<SlabGet(slab, key).entry, entry>>)),
               << >>, FALSE)

\* variant: a further entry replaces the queue's last one
FoldUnclaimedOverwrites(slab, key, entry) ==
    LET entries == SlabGet(slab, key).entries
    IN  FoldResult(SlabSet(slab, key,
                       Unclaimed(Append(SubSeq(entries, 1, Len(entries) - 1), entry))),
                   << >>, FALSE)

\* match arm State::Unclaimed(entries)
FoldUnclaimed(slab, key, entry) ==
    FoldResult(SlabSet(slab, key,
                       Unclaimed(Append(SlabGet(slab, key).entries, entry))),
               << >>, FALSE)

\* one iteration of the loop `for entry in completion`: the slot named by
\* the entry's user data folds the entry in; a missing slot panics
FoldEntry(slab, entry) ==
    LET key == entry.user_data
    IN  IF ~SlabContains(slab, key)
        THEN FoldResult(slab, << >>, TRUE)
        ELSE CASE SlabGet(slab, key).tag = "Waiting" -> FoldWaiting(slab, key, entry)
               [] SlabGet(slab, key).tag = "Completed" -> FoldCompleted(slab, key, entry)
               [] SlabGet(slab, key).tag = "Unclaimed" -> FoldUnclaimed(slab, key, entry)

\* what the loop has done so far: the table, the wakes issued, the entries
\* taken from the view, and whether a lookup panicked
FoldStart(slab) ==
    [operations |-> slab, wakes |-> << >>, taken |-> << >>, panic |-> FALSE]

FoldStep(acc, entry) ==
    IF acc.panic THEN acc
    ELSE LET r == FoldEntry(acc.operations, entry)
         IN  [operations |-> r.operations,
              wakes |-> acc.wakes \o r.wakes,
              taken |-> Append(acc.taken, entry),
              panic |-> r.panic]

RECURSIVE Fold(_, _)
\* the whole loop over the completion view
Fold(acc, completion) ==
    IF completion = << >> THEN acc
    ELSE Fold(FoldStep(acc, Head(completion)), Tail(completion))

\* entries of `completion` that belong to submission s, in ring order
RECURSIVE EntriesOf(_, _)
EntriesOf(completion, s) ==
    IF completion = << >> THEN << >>
    ELSE IF Head(completion).serial = s
         THEN <<Head(completion)>> \o EntriesOf(Tail(completion), s)
         ELSE EntriesOf(Tail(completion), s)

\* Reactor::tick, completion ring empty at entry: submit_and_wait(1).  The
\* call returns once the kernel has posted an entry (here: for operation k,
\* with MORE flag m); the completion view taken before the call is empty,
\* so the loop has nothing to drain.
tick_wait(syscallOk) ==
    /\ ~panicked
    /\ cq = << >>
    /\ IF ~syscallOk
       THEN /\ last' = Call("tick", 0, -1, 0, "Err", NoEntry, << >>, 0, 0,
                            "submit_and_wait")
            /\ UNCHANGED <<sq, cq, kernel, posted>>
       ELSE \E k \in Consume(kernel, sq) : \E m \in MoreChoices(k) :
            /\ posted < MaxCqes
            /\ posted' = posted + 1
            /\ sq' = << >>
            /\ kernel' = Posted(Consume(kernel, sq), k, m)
            /\ cq' = <<Cqe(k, m)>>
            /\ last' = Call("tick", 0, -1, 0, "Ok", NoEntry, << >>, 0, 0,
                            "submit_and_wait")
    /\ UNCHANGED <<operations, issued, futures, drained, delivered, parked,
                   panicked>>

\* Reactor::tick, completion ring not empty at entry: submit() if the
\* submission ring has entries, then drain the completion view
tick_drain(syscallOk) ==
    /\ ~panicked
    /\ cq # << >>
    /\ LET syscall == IF sq # << >> THEN "submit" ELSE "none"
       IN  IF syscall = "submit" /\ ~syscallOk
           THEN /\ last' = Call("tick", 0, -1, 0, "Err", NoEntry, << >>, 0, 0,
                                syscall)
                /\ UNCHANGED <<operations, sq, cq, kernel, drained, parked,
                               panicked>>
           ELSE LET acc == Fold(FoldStart(operations), cq)
                IN  /\ sq' = << >>
                    /\ kernel' = Consume(kernel, sq)
                    /\ cq' = << >>
                    /\ operations' = acc.operations
                    /\ drained' = [s \in Serials |->
                           drained[s] \o EntriesOf(acc.taken, s)]
                    /\ parked' = Wake(parked, futures, acc.wakes)
                    /\ panicked' = acc.panic
                    /\ last' = Call("tick", 0, -1, 0,
                                    IF acc.panic THEN "Panic" ELSE "Ok",
                                    NoEntry, acc.wakes, 0, 0, syscall)
    /\ UNCHANGED <<issued, posted, futures, delivered>>

(* ------------------------------ kernel -------------------------------- *)

\* the kernel posts a completion entry for an operation it has in flight
kernel_complete(k, m) ==
    /\ ~panicked
    /\ k \in kernel
    /\ posted < MaxCqes
    /\ posted' = posted + 1
    /\ m \in MoreChoices(k)
    /\ Len(cq) < CqEntries
    /\ cq' = Append(cq, Cqe(k, m))
    /\ kernel' = Posted(kernel, k, m)
    /\ last' = NoCall("kernel")
    /\ UNCHANGED <<operations, sq, issued, futures, drained, delivered,
                   parked, panicked>>

(* ------------------- Oneshot and Multishot (facade) ------------------- *)
(* crates/uring-operation/src/operation.rs: a future or stream owns the    *)
(* operation value and an Option<handle>; its polls call submit_operation  *)
(* once no handle is stored and drive_operation once one is.               *)

\* Oneshot::new for an operation (multi: its opcode is a multishot one),
\* owned by a task
OneshotNew(multi, task) ==
    [NoWrapper EXCEPT !.kind = "oneshot", !.multi = multi, !.task = task,
                      !.state = "live"]

\* Multishot::new
MultishotNew(multi, task) ==
    [NoWrapper EXCEPT !.kind = "multishot", !.multi = multi, !.task = task,
                      !.state = "live"]

\* Operation::process_completion: the output the operation makes of an entry
process_completion(entry) == [tag |-> "Output", entry |-> entry]

\* the error submit_operation returned, as the output of the poll
SubmitError == [tag |-> "Err", entry |-> NoEntry]

\* end of stream (None)
EndOfStream == [tag |-> "None", entry |-> NoEntry]

\* Multishot::size_hint
size_hint(wrapper) ==
    IF wrapper.finished THEN [lower |-> 0, upper |-> 0]
    ELSE [lower |-> 1, upper |-> -1]

\* the wrapper after a poll, what the poll returned, and how many times it
\* called build_submission
PollResult(wrapper, ret, item, builds) ==
    [wrapper |-> wrapper, ret |-> ret, item |-> item, builds |-> builds]

\* variant: the MORE flag of the entry is not asserted clear
OneshotDriveNoAssert(wrapper, call) ==
    IF call.ret = "Panic"
    THEN PollResult([wrapper EXCEPT !.state = "panicked"], "Panic", NoItem, 0)
    ELSE IF call.ret = "Pending"
    THEN PollResult(wrapper, "Pending", NoItem, 0)
    ELSE PollResult([wrapper EXCEPT !.state = "resolved"], "Ready",
                    process_completion(call.entry), 0)

\* Oneshot::poll with a handle stored: `call` is the drive_operation call
OneshotDrive(wrapper, call) ==
    IF call.ret = "Panic"
    THEN PollResult([wrapper EXCEPT !.state = "panicked"], "Panic", NoItem, 0)
    ELSE IF call.ret = "Pending"
    THEN PollResult(wrapper, "Pending", NoItem, 0)
    ELSE IF more(call.entry)
    THEN \* assert!(!cqueue::more(entry.flags()))
         PollResult([wrapper EXCEPT !.state = "panicked"], "Panic", NoItem, 0)
    ELSE PollResult([wrapper EXCEPT !.state = "resolved"], "Ready",
                    process_completion(call.entry), 0)

\* Oneshot::poll with no handle stored: build_submission, then `call` is the
\* submit_operation call
OneshotSubmit(wrapper, call) ==
    LET built == [wrapper EXCEPT !.builds = @ + 1, !.serial = call.serial]
    IN  IF call.ret = "Ok"
        THEN PollResult([built EXCEPT !.handle = call.handle], "Pending",
                        NoItem, 1)
        ELSE PollResult([built EXCEPT !.state = "resolved"], "Ready",
                        SubmitError, 1)

\* variant: the submission is built again on a poll that drives the handle
MultishotDriveRebuilds(wrapper, call) ==
    LET built == [wrapper EXCEPT !.builds = @ + 1]
    IN  IF call.ret = "Panic"
        THEN PollResult([built EXCEPT !.state = "panicked"], "Panic", NoItem, 1)
        ELSE IF call.ret = "Pending"
        THEN PollResult(built, "Pending", NoItem, 1)
        ELSE PollResult([built EXCEPT !.finished = ~more(call.entry)], "Ready",
                        process_completion(call.entry), 1)

\* variant: the stream is never marked finished
MultishotDriveNeverFinishes(wrapper, call) ==
    IF call.ret = "Panic"
    THEN PollResult([wrapper EXCEPT !.state = "panicked"], "Panic", NoItem, 0)
    ELSE IF call.ret = "Pending"
    THEN PollResult(wrapper, "Pending", NoItem, 0)
    ELSE PollResult(wrapper, "Ready", process_completion(call.entry), 0)

\* Multishot::poll_next with a handle stored
MultishotDrive(wrapper, call) ==
    IF call.ret = "Panic"
    THEN PollResult([wrapper EXCEPT !.state = "panicked"], "Panic", NoItem, 0)
    ELSE IF call.ret = "Pending"
    THEN PollResult(wrapper, "Pending", NoItem, 0)
    ELSE PollResult([wrapper EXCEPT !.finished = ~more(call.entry)], "Ready",
                    process_completion(call.entry), 0)

\* Multishot::poll_next with no handle stored
MultishotSubmit(wrapper, call) ==
    LET built == [wrapper EXCEPT !.builds = @ + 1, !.serial = call.serial]
    IN  IF call.ret = "Ok"
        THEN PollResult([built EXCEPT !.handle = call.handle], "Pending",
                        NoItem, 1)
        ELSE PollResult(built, "Ready", SubmitError, 1)

\* a panic has unwound the program, from the reactor or from a future
Aborted == panicked \/ \E w \in Serials : wrappers[w].state = "panicked"

\* the next free position of `wrappers`
NextWrapper == Cardinality({w \in Serials : wrappers[w].kind # "none"}) + 1

\* the task that owns the future or stream at position w: tasks take turns
TaskOf(w) == ((w - 1) % Cardinality(Tasks)) + 1

\* Operation::submit_oneshot at the await that first polls the future: the
\* future at position w, created now if the position is the next free one
submit_oneshot(w, multi) ==
    IF w = NextWrapper THEN OneshotNew(multi, TaskOf(w)) ELSE wrappers[w]

\* Operation::submit_multishot, likewise
submit_multishot(w, multi) ==
    IF w = NextWrapper THEN MultishotNew(multi, TaskOf(w)) ELSE wrappers[w]

\* the kinds of operation a poll of position w may be about
Opcodes(w) == IF w = NextWrapper THEN BOOLEAN ELSE {wrappers[w].multi}

\* Oneshot::poll: what it does to the future and to the reactor
PollFuture(w, multi, submitOk) ==
    LET wrapper == submit_oneshot(w, multi)
    IN  /\ ~Aborted
        /\ wrapper.kind = "oneshot"
        /\ wrapper.state = "live"
        /\ IF wrapper.handle # -1
           THEN /\ drive_operation(wrapper.serial, wrapper.task)
                /\ LET r == OneshotDrive(wrapper, last')
                   IN  /\ wrappers' = [wrappers EXCEPT ![w] = r.wrapper]
                       /\ polled' = Polled("poll", w, r.ret, r.item, r.builds, "drive")
           ELSE /\ submit_operation(wrapper.multi, wrapper.task, submitOk)
                /\ LET r == OneshotSubmit(wrapper, last')
                   IN  /\ wrappers' = [wrappers EXCEPT ![w] = r.wrapper]
                       /\ polled' = Polled("poll", w, r.ret, r.item, r.builds, "submit")

\* Oneshot::poll by the owning task.  A future is not polled again once it
\* has resolved.
poll(w, multi, submitOk) ==
    /\ PollFuture(w, multi, submitOk)
    /\ UNCHANGED <<catalogVars, executorVars, outerVars>>

\* Multishot::poll_next by the owning task
poll_next(w, multi, submitOk) ==
    LET wrapper == submit_multishot(w, multi)
    IN  /\ ~Aborted
        /\ wrapper.kind = "multishot"
        /\ UNCHANGED <<catalogVars, executorVars, outerVars>>
        /\ wrapper.state = "live"
        /\ IF wrapper.finished
           THEN /\ polled' = Polled("poll_next", w, "Ready", EndOfStream, 0, "none")
                /\ UNCHANGED <<wrappers, reactorVars>>
           ELSE IF wrapper.handle # -1
           THEN /\ drive_operation(wrapper.serial, wrapper.task)
                /\ LET r == MultishotDrive(wrapper, last')
                   IN  /\ wrappers' = [wrappers EXCEPT ![w] = r.wrapper]
                       /\ polled' = Polled("poll_next", w, r.ret, r.item, r.builds, "drive")
           ELSE /\ wrapper.builds < MaxBuilds
                /\ IF wrapper.serial = 0
                   THEN submit_operation(wrapper.multi, wrapper.task, submitOk)
                   ELSE resubmit_operation(wrapper.serial, wrapper.multi,
                                           wrapper.task, submitOk)
                /\ LET r == MultishotSubmit(wrapper, last')
                   IN  /\ wrappers' = [wrappers EXCEPT ![w] = r.wrapper]
                       /\ polled' = Polled("poll_next", w, r.ret, r.item, r.builds, "submit")

\* variant: dropping a future removes the slot of its handle
DropWrapperRemovesSlot(slab, wrapper) ==
    IF SlabContains(slab, wrapper.handle)
    THEN SlabRemove(slab, wrapper.handle)
    ELSE slab

\* what dropping a future or stream does to the reactor's table: Oneshot
\* and Multishot have no Drop implementation, the table is left as it is
DropWrapper(slab, wrapper) == slab

\* the owning task drops a future or stream it has not finished
drop(w) ==
    /\ ~Aborted
    /\ wrappers[w].state = "live"
    /\ ~wrappers[w].finished
    /\ wrappers' = [wrappers EXCEPT ![w].state = "dropped"]
    /\ operations' = DropWrapper(operations, wrappers[w])
    /\ polled' = Polled("drop", w, "None", NoItem, 0, "none")
    /\ UNCHANGED <<sq, cq, kernel, issued, posted, futures, drained, delivered,
                   parked, last, panicked, catalogVars, executorVars, outerVars>>

(* ------------------------ the operation catalog ----------------------- *)
(* crates/uring-operation/src/{io,net,common}.rs: what each operation's   *)
(* process_completion makes of a completion entry.  Results are the i32   *)
(* the kernel posts: a count or descriptor when non-negative, -errno      *)
(* otherwise.                                                             *)

Catalog == {"Read", "Write", "Splice", "Accept", "Shutdown", "Close", "Cancel", "Raw"}

\* the completion entries process_completion is called with
Results == (0 - MaxResult)..MaxResult

CatalogEntries ==
    [result : Results, user_data : {0, 1}, more : BOOLEAN]

\* Ok(value): kind tells the type of the value, n its number (a count, a
\* length or a descriptor), entry the completion entry it carries, if any
Ok(kind, n, entry) == [tag |-> "Ok", kind |-> kind, n |-> n, entry |-> entry]

\* Error::from_raw_os_error(code)
from_raw_os_error(code) ==
    [tag |-> "Err", kind |-> "os", n |-> code, entry |-> << >>]

\* i32 -> usize by TryFrom: fails on a negative value
try_into(result) ==
    IF result >= 0 THEN [ok |-> TRUE, value |-> result]
    ELSE [ok |-> FALSE, value |-> 0]

\* the check shared by Cancel, Close, Shutdown and Accept
is_negative(result) == result < 0

\* Read::process_completion: the buffer, grown by the amount read
Read_process_completion(len, entry) ==
    LET amount == try_into(entry.result)
    IN  IF ~amount.ok THEN from_raw_os_error(-entry.result)
        ELSE Ok("buffer", len + amount.value, << >>)

\* variant: the error code is the result as it came, not negated
Write_process_completion_KeepsSign(len, entry) ==
    LET amount == try_into(entry.result)
    IN  IF ~amount.ok THEN from_raw_os_error(entry.result)
        ELSE Ok("usize", amount.value, << >>)

\* Write::process_completion: the number of bytes written
Write_process_completion(len, entry) ==
    LET amount == try_into(entry.result)
    IN  IF ~amount.ok THEN from_raw_os_error(-entry.result)
        ELSE Ok("usize", amount.value, << >>)

\* Splice::process_completion: the number of bytes moved
Splice_process_completion(len, entry) ==
    LET amount == try_into(entry.result)
    IN  IF ~amount.ok THEN from_raw_os_error(-entry.result)
        ELSE Ok("usize", amount.value, << >>)

\* Accept::process_completion: the accepted socket (and its address)
Accept_process_completion(len, entry) ==
    IF is_negative(entry.result) THEN from_raw_os_error(-entry.result)
    ELSE Ok("socket", entry.result, << >>)

Shutdown_process_completion(len, entry) ==
    IF is_negative(entry.result) THEN from_raw_os_error(-entry.result)
    ELSE Ok("unit", 0, << >>)

Close_process_completion(len, entry) ==
    IF is_negative(entry.result) THEN from_raw_os_error(-entry.result)
    ELSE Ok("unit", 0, << >>)

Cancel_process_completion(len, entry) ==
    IF is_negative(entry.result) THEN from_raw_os_error(-entry.result)
    ELSE Ok("unit", 0, << >>)

\* Raw::process_completion
Raw_process_completion(len, entry) == Ok("entry", 0, entry)

\* the buffer lengths a Read may hold when its completion arrives; the
\* other operations keep nothing process_completion reads
Lengths(op) == IF op = "Read" THEN {0, 1} ELSE {0}

\* process_completion of operation op, dispatched by its type
Interpret(op, len, entry) ==
    CASE op = "Read" -> Read_process_completion(len, entry)
      [] op = "Write" -> Write_process_completion(len, entry)
      [] op = "Splice" -> Splice_process_completion(len, entry)
      [] op = "Accept" -> Accept_process_completion(len, entry)
      [] op = "Shutdown" -> Shutdown_process_completion(len, entry)
      [] op = "Close" -> Close_process_completion(len, entry)
      [] op = "Cancel" -> Cancel_process_completion(len, entry)
      [] op = "Raw" -> Raw_process_completion(len, entry)

\* a future or stream hands an entry to its operation
interpret(op, len, entry) ==
    /\ interpreted' = [op |-> op, len |-> len, entry |-> entry,
                       output |-> Interpret(op, len, entry)]
    /\ UNCHANGED <<reactorVars, facadeVars, executorVars, outerVars>>

(* ----------------------------- executor ------------------------------- *)
(* src/executor.rs: spawn wraps a future into an async_task runnable whose *)
(* schedule callback pushes it on the FIFO, and runs it once; tick pops    *)
(* and runs runnables until the FIFO is empty.  A run polls the future     *)
(* once; the task's waker schedules the runnable when the task is idle,    *)
(* and a wake that arrives during a run schedules it when the run ends.    *)

ExecState(rs, queue) == [runnables |-> rs, tasks |-> queue]

\* variant: the callback pushes the runnable on the front of the queue
schedule_push_front(queue, t) == <<t>> \o queue

\* the schedule callback given to spawn_unchecked
schedule(queue, t) == Append(queue, t)

\* what a poll of the task's future may do: complete, wait for a wake, or
\* wake its own waker before it returns Pending
PollOutcomes(r) ==
    {"Ready", "Pending"} \cup (IF r.wakes < MaxWakes THEN {"PendingWoken"} ELSE {})

\* Runnable::run: one poll of the future of task t
Run(rs, queue, t, outcome) ==
    LET r == [rs[t] EXCEPT !.polls = @ + 1,
                           !.first = IF @ = "none" THEN outcome ELSE @]
    IN  CASE outcome = "Ready" ->
               ExecState([rs EXCEPT ![t] = [r EXCEPT !.state = "completed"]], queue)
          [] outcome = "Pending" ->
               ExecState([rs EXCEPT ![t] = [r EXCEPT !.state = "idle"]], queue)
          [] outcome = "PendingWoken" ->
               ExecState([rs EXCEPT ![t] = [r EXCEPT !.state = "scheduled",
                                                     !.wakes = @ + 1,
                                                     !.pushes = @ + 1]],
                         schedule(queue, t))

\* Waker::wake on the waker of task t, outside a run of t
WakeRunnable(rs, queue, t) ==
    IF rs[t].state = "idle"
    THEN ExecState([rs EXCEPT ![t] = [@ EXCEPT !.state = "scheduled",
                                              !.wakes = @ + 1,
                                              !.pushes = @ + 1]],
                   schedule(queue, t))
    ELSE ExecState([rs EXCEPT ![t].wakes = @ + 1], queue)

\* variant: spawn schedules the new runnable instead of running it
SpawnSchedules(rs, queue, t, outcome) ==
    ExecState([rs EXCEPT ![t].pushes = @ + 1], schedule(queue, t))

\* what spawn does with the runnable it created: runnable.run()
SpawnRuns(rs, queue, t, outcome) == Run(rs, queue, t, outcome)

\* the task the next spawn creates
NextSpawn == Cardinality({t \in Spawns : runnables[t].state # "none"}) + 1

\* Executor::spawn
spawn(outcome) ==
    LET t == NextSpawn
        created == [runnables EXCEPT ![t] = [NoRunnable EXCEPT !.state = "scheduled"]]
        after == SpawnRuns(created, tasks, t, outcome)
    IN  /\ t \in Spawns
        /\ runnables' = after.runnables
        /\ tasks' = after.tasks
        /\ ran' = Ran("spawn", t, outcome)
        /\ UNCHANGED <<ticking, reactorVars, facadeVars, catalogVars, outerVars>>

\* the waker of a spawned task is woken
wake(t) ==
    LET after == WakeRunnable(runnables, tasks, t)
    IN  /\ runnables[t].state # "none"
        /\ runnables[t].wakes < MaxWakes
        /\ runnables' = after.runnables
        /\ tasks' = after.tasks
        /\ ran' = Ran("wake", t, "None")
        /\ UNCHANGED <<ticking, reactorVars, facadeVars, catalogVars, outerVars>>

\* Executor::tick, one iteration of its loop that pops a runnable
executor_tick_run(outcome) ==
    /\ tasks # << >>
    /\ LET t == Head(tasks)
           after == Run(runnables, Tail(tasks), t, outcome)
       IN  /\ outcome \in PollOutcomes(runnables[t])
           /\ runnables' = after.runnables
           /\ tasks' = after.tasks
           /\ ran' = Ran("tick", t, outcome)
    /\ ticking' = TRUE
    /\ UNCHANGED <<reactorVars, facadeVars, catalogVars, outerVars>>

\* Executor::tick, the iteration that finds the queue empty and returns
executor_tick_return ==
    /\ tasks = << >>
    /\ ticking' = FALSE
    /\ ran' = Ran("tick_return", 0, "None")
    /\ UNCHANGED <<tasks, runnables, reactorVars, facadeVars, catalogVars, outerVars>>

(* ----------------------------- block_on ------------------------------- *)
(* src/executor.rs: block_on polls the future with a no-op waker; on Ready *)
(* it returns Ok(output), on Pending it calls the ticker, returns its      *)
(* error if it fails and goes round the loop if it does not.               *)

\* what a poll of the future may return
PollReturns == {[tag |-> "Pending", value |-> "none"]}
               \cup {[tag |-> "Ready", value |-> v] : v \in Values}

\* what a call of the ticker may return
TickerReturns == {[tag |-> "Ok", value |-> "none"]}
                 \cup {[tag |-> "Err", value |-> e] : e \in Values}

\* `if let Poll::Ready(output) = future.as_mut().poll(..) { return Ok(output) }`
BlockOnPoll(loop, outcome) ==
    IF outcome.tag = "Ready"
    THEN [loop EXCEPT !.pc = "returned", !.polls = @ + 1,
                      !.ret = [tag |-> "Ok", value |-> outcome.value]]
    ELSE [loop EXCEPT !.pc = "ticker", !.polls = @ + 1]

\* variant: a failure of the ticker is dropped and the loop goes on
BlockOnTickerIgnoresError(loop, outcome) ==
    [loop EXCEPT !.pc = "poll", !.ticks = @ + 1]

\* `ticker()?`
BlockOnTicker(loop, outcome) ==
    IF outcome.tag = "Err"
    THEN [loop EXCEPT !.pc = "returned", !.ticks = @ + 1,
                      !.ret = [tag |-> "Err", value |-> outcome.value]]
    ELSE [loop EXCEPT !.pc = "poll", !.ticks = @ + 1]

\* block_on of thread l polls its future
block_on_poll(l, outcome) ==
    /\ loops[l].pc = "poll"
    /\ loops[l].polls < MaxPolls
    /\ loops' = [loops EXCEPT ![l] = BlockOnPoll(@, outcome)]
    /\ stepped' = Stepped(l, "poll", outcome)
    /\ UNCHANGED <<reactorVars, facadeVars, catalogVars, executorVars, cellVars, adapterVars>>

\* block_on of thread l calls its ticker
block_on_ticker(l, outcome) ==
    /\ loops[l].pc = "ticker"
    /\ loops' = [loops EXCEPT ![l] = BlockOnTicker(@, outcome)]
    /\ stepped' = Stepped(l, "ticker", outcome)
    /\ UNCHANGED <<reactorVars, facadeVars, catalogVars, executorVars, cellVars, adapterVars>>

(* ----------------------------- the runtime ---------------------------- *)
(* src/main.rs: tasks are spawned on the Executor and await operations of  *)
(* the Reactor; the main thread runs                                      *)
(*     block_on(task, || { executor.tick(); reactor.tick() }).            *)
(* Task t awaits the Oneshot future at position t and returns what it     *)
(* resolves with; its waker is the one submit_operation and               *)
(* drive_operation store in the slot.                                     *)

\* the tasks of the runtime
RuntimeTasks == Spawns \cap Tasks \cap Serials

\* the thread that calls block_on
Main == 1

\* what the poll of a task's future returns, given what its Oneshot returned
TaskOutcome(ret) == IF ret = "Pending" THEN "Pending" ELSE "Ready"

\* variant: a wake polls the woken task at once, inside Reactor::tick,
\* instead of pushing its runnable
WakeAllRunsInline(st, wakes) ==
    [st EXCEPT !.runnables =
        [t \in DOMAIN @ |->
            IF \E i \in 1..Len(wakes) : wakes[i].waker = t
            THEN [@[t] EXCEPT !.wakes = @ + 1, !.polls = @ + 1]
            ELSE @[t]]]

RECURSIVE WakeAll(_, _)
\* the wakes of one Reactor::tick, in the order of the entries: each is
\* Waker::wake on the waker of the task stored in the slot
WakeAll(st, wakes) ==
    IF wakes = << >> THEN st
    ELSE WakeAll(WakeRunnable(st.runnables, st.tasks, Head(wakes).waker), Tail(wakes))

\* Executor::spawn of a task, before block_on is called or by a task that
\* Executor::tick is running: the first poll of the new task's future runs
\* inside spawn and submits its operation
runtime_spawn(multi, submitOk) ==
    LET t == NextSpawn
        created == [runnables EXCEPT ![t] = [NoRunnable EXCEPT !.state = "scheduled"]]
        after == SpawnRuns(created, tasks, t, TaskOutcome(polled'.ret))
    IN  /\ t \in RuntimeTasks
        /\ \/ loops[Main].pc = "poll" /\ loops[Main].polls = 0
           \/ loops[Main].pc = "ticker" /\ ticking
        /\ PollFuture(t, multi, submitOk)
        /\ runnables' = after.runnables
        /\ tasks' = after.tasks
        /\ ran' = Ran("spawn", t, TaskOutcome(polled'.ret))
        /\ UNCHANGED <<ticking, catalogVars, outerVars>>

\* block_on polls the JoinHandle of the first task with its no-op waker
runtime_block_on_poll ==
    LET outcome == IF runnables[1].state = "completed"
                   THEN [tag |-> "Ready", value |-> "a"]
                   ELSE [tag |-> "Pending", value |-> "none"]
    IN  /\ ~Aborted
        /\ runnables[1].state # "none"
        /\ loops[Main].pc = "poll"
        /\ loops[Main].polls < MaxPolls
        /\ loops' = [loops EXCEPT ![Main] = BlockOnPoll(@, outcome)]
        /\ stepped' = Stepped(Main, "poll", outcome)
        /\ polled' = NoPoll
        /\ UNCHANGED <<reactorVars, wrappers, catalogVars, executorVars,
                       cellVars, adapterVars>>

\* the ticker is in Executor::tick
InExecutorTick ==
    loops[Main].pc = "ticker" /\ stepped.call \in {"poll", "executor.run"}

\* the ticker, executor.tick(): an iteration that pops a runnable and runs
\* it: the task polls its future
runtime_executor_tick_run(multi, submitOk) ==
    /\ InExecutorTick
    /\ tasks # << >>
    /\ LET t == Head(tasks)
           outcome == TaskOutcome(polled'.ret)
           after == Run(runnables, Tail(tasks), t, outcome)
       IN  /\ PollFuture(t, multi, submitOk)
           /\ runnables' = after.runnables
           /\ tasks' = after.tasks
           /\ ran' = Ran("tick", t, outcome)
    /\ ticking' = TRUE
    /\ stepped' = Stepped(Main, "executor.run", NoReturn)
    /\ UNCHANGED <<loops, catalogVars, cellVars, adapterVars>>

\* the ticker, executor.tick(): the iteration that finds the queue empty
runtime_executor_tick_return ==
    /\ ~Aborted
    /\ InExecutorTick
    /\ tasks = << >>
    /\ ticking' = FALSE
    /\ ran' = Ran("tick_return", 0, "None")
    /\ stepped' = Stepped(Main, "executor.tick", NoReturn)
    /\ polled' = NoPoll
    /\ UNCHANGED <<tasks, runnables, loops, reactorVars, wrappers, catalogVars,
                   cellVars, adapterVars>>

\* the ticker, reactor.tick(): its result is the result of the ticker, and
\* the wakers it wakes are the wakers of tasks of the Executor
runtime_reactor_tick(syscallOk) ==
    /\ ~Aborted
    /\ loops[Main].pc = "ticker" /\ stepped.call = "executor.tick"
    /\ tick_wait(syscallOk) \/ tick_drain(syscallOk)
    /\ LET after == WakeAll(ExecState(runnables, tasks), last'.wakes)
           outcome == IF last'.ret = "Err"
                      THEN [tag |-> "Err", value |-> "a"]
                      ELSE [tag |-> "Ok", value |-> "none"]
       IN  /\ runnables' = after.runnables
           /\ tasks' = after.tasks
           /\ loops' = [loops EXCEPT ![Main] = BlockOnTicker(@, outcome)]
           /\ stepped' = Stepped(Main, "ticker", outcome)
    /\ ran' = Ran("reactor.tick", 0, "None")
    /\ polled' = NoPoll
    /\ UNCHANGED <<ticking, wrappers, catalogVars, cellVars, adapterVars>>

(* ----------------------------- DangerCell ----------------------------- *)
(* crates/local-danger-cell/src/lib.rs: assume_unique_access sets the      *)
(* borrowed flag and panics if it was set; the guard it returns clears the *)
(* flag when dropped.                                                      *)

\* variant: the flag is set without being tested
AssumeUniqueAccessUnchecked(cell) ==
    [cell |-> [cell EXCEPT !.borrowed = TRUE, !.live = @ + 1, !.granted = @ + 1],
     ret |-> "Ok"]

\* `assert!(!self.borrowed.replace(true), "already borrowed"); AccessGuard(self)`
AssumeUniqueAccess(cell) ==
    IF cell.borrowed
    THEN [cell |-> [cell EXCEPT !.borrowed = TRUE], ret |-> "already borrowed"]
    ELSE [cell |-> [cell EXCEPT !.borrowed = TRUE, !.live = @ + 1, !.granted = @ + 1],
          ret |-> "Ok"]

\* AccessGuard::drop
DropGuard(cell) == [cell EXCEPT !.borrowed = FALSE, !.live = @ - 1]

\* DangerCell::assume_unique_access on cell c
assume_unique_access(c) ==
    LET r == AssumeUniqueAccess(cells[c])
    IN  /\ cells[c].granted < MaxGrants
        /\ cells' = [cells EXCEPT ![c] = r.cell]
        /\ accessed' = Accessed("assume_unique_access", c, r.ret)
        /\ UNCHANGED <<frames, reactorVars, facadeVars, catalogVars, executorVars, blockVars, adapterVars>>

\* a guard of cell c goes out of scope, at the end of its statement or block
\* or while a panic unwinds
drop_guard(c) ==
    /\ cells[c].live > 0
    /\ cells' = [cells EXCEPT ![c] = DropGuard(@)]
    /\ accessed' = Accessed("drop", c, "None")
    /\ UNCHANGED <<frames, reactorVars, facadeVars, catalogVars, executorVars, blockVars, adapterVars>>

(* --------------------------- guard scopes ----------------------------- *)
(* Where the program takes its guards.  The thread is a stack of calls;   *)
(* each frame is a call of Executor::spawn's or Executor::tick's          *)
(* runnable.run(), of Executor::tick, or of a method of the Reactor, at a *)
(* position of its body.  A guard bound to a variable lives until its     *)
(* function (or loop iteration) ends; a guard created inside a statement  *)
(* is dropped at the end of that statement.                               *)

Frame(fn, pc) == [fn |-> fn, pc |-> pc, woken |-> FALSE]

\* the innermost call
Top == frames[Len(frames)]

At(fn, pc) == frames # << >> /\ Top.fn = fn /\ Top.pc = pc

\* the innermost call moves to position pc
Goto(pc) == [frames EXCEPT ![Len(frames)].pc = pc]

\* the innermost call returns
Return == SubSeq(frames, 1, Len(frames) - 1)

\* no "already borrowed" panic has unwound the thread
Unwound == accessed.ret = "already borrowed"

\* variant: the guard of a temporary lives on after its statement
TemporaryGuardOutlivesStatement(cell) == AssumeUniqueAccess(cell)

\* `cell.assume_unique_access().method(..);`: the guard is a temporary of
\* the statement and is dropped at its end
TemporaryGuard(cell) ==
    LET r == AssumeUniqueAccess(cell)
    IN  [cell |-> IF r.ret = "Ok" THEN DropGuard(r.cell) ELSE r.cell,
         ret |-> r.ret]

\* a statement of the innermost call uses cell c through a temporary guard
\* and goes on as `after`
Statement(c, after) ==
    LET r == TemporaryGuard(cells[c])
    IN  /\ cells[c].granted < MaxAcquires
        /\ cells' = [cells EXCEPT ![c] = r.cell]
        /\ accessed' = Accessed("assume_unique_access", c, r.ret)
        /\ frames' = IF r.ret = "Ok" THEN after ELSE frames

\* `let guard = cell.assume_unique_access();`: the guard lives on
Bind(c, after) ==
    LET r == AssumeUniqueAccess(cells[c])
    IN  /\ cells[c].granted < MaxAcquires
        /\ cells' = [cells EXCEPT ![c] = r.cell]
        /\ accessed' = Accessed("assume_unique_access", c, r.ret)
        /\ frames' = IF r.ret = "Ok" THEN after ELSE frames

\* the scope of the guard of cell c ends
EndScope(c, after) ==
    /\ cells' = [cells EXCEPT ![c] = DropGuard(@)]
    /\ accessed' = Accessed("drop", c, "None")
    /\ frames' = after

\* a call that takes no guard itself
Enter(fn, pc) ==
    /\ Len(frames) < MaxDepth
    /\ frames' = Append(frames, Frame(fn, pc))
    /\ UNCHANGED <<cells, accessed>>

ScopeIdle ==
    UNCHANGED <<reactorVars, facadeVars, catalogVars, executorVars, blockVars,
                adapterVars>>

\* the thread is in block_on (between its poll and its ticker) or in the
\* future of a running task, where the program calls the Reactor from
InTask == frames = << >> \/ At("run", "poll")

\* Executor::spawn: runnable.run() polls the new task at once; called
\* before block_on and from inside running tasks
scope_spawn ==
    /\ ~Unwound /\ InTask
    /\ Enter("run", "poll")
    /\ ScopeIdle

\* Executor::tick, called by the ticker of block_on
scope_executor_tick ==
    /\ ~Unwound /\ frames = << >>
    /\ Enter("Executor::tick", "pop")
    /\ ScopeIdle

\* `let item = self.tasks.assume_unique_access().pop_front();` and the
\* match on item: a runnable is run, or the loop ends
scope_executor_tick_pop(some) ==
    /\ ~Unwound /\ At("Executor::tick", "pop")
    /\ \/ /\ some /\ Len(frames) < MaxDepth
          /\ Statement("tasks", Append(frames, Frame("run", "poll")))
       \/ /\ ~some
          /\ Statement("tasks", Return)
    /\ ScopeIdle

\* the waker of the running task is woken from inside its poll
\* (context.waker().wake_by_ref()): async_task marks the task, its
\* schedule function runs when the poll has returned
scope_wake_running ==
    /\ ~Unwound
    /\ \E i \in 1..Len(frames) :
          /\ frames[i].fn = "run" /\ ~frames[i].woken
          /\ \A j \in (i + 1)..Len(frames) : frames[j].fn # "run"
          /\ frames' = [frames EXCEPT ![i].woken = TRUE]
    /\ UNCHANGED <<cells, accessed>>
    /\ ScopeIdle

\* the waker of a task that is not running is woken, or the last waker of
\* a task is dropped: the schedule closure of Executor::spawn runs at
\* once, `self.tasks.assume_unique_access().push_back(runnable);`.  This
\* happens inside a running task, inside drive_operation (wake_by_ref,
\* clone_into) and inside the loop body of Reactor::tick (wake).
scope_wake_schedules ==
    /\ ~Unwound
    /\ \/ At("run", "poll")
       \/ At("drive_operation", "match")
       \/ At("Reactor::tick", "entry")
    /\ Statement("tasks", frames)
    /\ ScopeIdle

\* runnable.run() returns: a task woken while it ran is scheduled now
scope_run_return ==
    /\ ~Unwound /\ At("run", "poll")
    /\ IF Top.woken
       THEN Statement("tasks", Return)
       ELSE frames' = Return /\ UNCHANGED <<cells, accessed>>
    /\ ScopeIdle

\* Reactor::submit_operation: the insert through a temporary guard of the
\* slot table, then the guard of the ring until the call returns
scope_submit_operation ==
    /\ ~Unwound
    /\ \/ InTask /\ Enter("submit_operation", "insert")
       \/ At("submit_operation", "insert") /\ Statement("operations", Goto("ring"))
       \/ At("submit_operation", "ring") /\ Bind("ring", Goto("push"))
       \/ At("submit_operation", "push") /\ EndScope("ring", Return)
    /\ ScopeIdle

\* Reactor::drive_operation: the guard of the slot table from the first
\* statement until the call returns
scope_drive_operation ==
    /\ ~Unwound
    /\ \/ InTask /\ Enter("drive_operation", "enter")
       \/ At("drive_operation", "enter") /\ Bind("operations", Goto("match"))
       \/ At("drive_operation", "match") /\ EndScope("operations", Return)
    /\ ScopeIdle

\* Reactor::tick, called by the ticker of block_on: the guard of the ring
\* until the call returns, and in each iteration of the loop a guard of
\* the slot table until the iteration ends
scope_reactor_tick ==
    /\ ~Unwound
    /\ \/ frames = << >> /\ Enter("Reactor::tick", "enter")
       \/ At("Reactor::tick", "enter") /\ Bind("ring", Goto("loop"))
       \/ At("Reactor::tick", "loop") /\ Bind("operations", Goto("entry"))
       \/ At("Reactor::tick", "entry") /\ EndScope("operations", Goto("loop"))
       \/ At("Reactor::tick", "loop") /\ EndScope("ring", Return)
    /\ ScopeIdle

(* ------------------------------ PollIo -------------------------------- *)
(* crates/uring-adapter/src/lib.rs and src/adapter.rs.  The adapter calls  *)
(* submit_operation and drive_operation on the reactor's slot table; the  *)
(* ring is reduced to the set of operations the kernel holds, and a tick  *)
(* that folds one completion entry into the table.  Every operation the   *)
(* adapters submit has a single completion.                               *)

\* the task that owns the adapter
IoTask == 1

\* the part of the state a call on an adapter works on
IoState(p, sh, slab, inflight, log) ==
    [pollio |-> p, shared |-> sh, operations |-> slab, pending |-> inflight,
     submitted |-> log]

IoNow == IoState(pollio, shared, operations, pending, submitted)

\* an SQE as built by the adapter: its opcode, the user data AsyncCancel
\* names (-1 otherwise), the direction that built it, and whether it
\* carries a pointer to the buffer of the caller
Sqe(opcode, target, by, buffer) ==
    [opcode |-> opcode, target |-> target, by |-> by, buffer |-> buffer]

\* Reactor::submit_operation on this state: the slot is inserted and its
\* key becomes the user data; the push succeeds or the call returns Err,
\* leaving the slot behind
IoSubmit(st, sqe, waker, ok) ==
    LET handle == st.operations.next
        entry == [user_data |-> handle, opcode |-> sqe.opcode,
                  target |-> sqe.target, by |-> sqe.by, buffer |-> sqe.buffer,
                  serial |-> Len(st.submitted) + 1, accepted |-> ok,
                  cancelled |-> FALSE]
    IN  [st |-> [st EXCEPT !.operations = SlabInsert(@, Waiting(waker)),
                           !.pending = IF ok THEN @ \cup {entry} ELSE @,
                           !.submitted = Append(@, entry)],
         ret |-> IF ok THEN "Ok" ELSE "Err",
         handle |-> IF ok THEN handle ELSE -1]

\* Reactor::drive_operation on this state
IoDrive(st, handle, waker) ==
    IF ~SlabContains(st.operations, handle)
    THEN [st |-> st, ret |-> "Panic", entry |-> NoEntry]
    ELSE LET d == Drive(st.operations, handle, waker)
         IN  [st |-> [st EXCEPT !.operations = d.operations],
              ret |-> d.ret, entry |-> d.entry]

\* the results the kernel may give operation p: AsyncCancel finds an
\* operation in flight with the user data it names (0) or does not
\* (-ENOENT); a cancelled operation ends with -ECANCELED; any other ends
\* with an error or with its success value: zero for Shutdown and Close,
\* an event mask or a count for PollAdd and Write
IoResults(p, inflight) ==
    IF p.opcode = "AsyncCancel"
    THEN IF \E q \in inflight \ {p} : q.user_data = p.target THEN {0} ELSE {0 - 2}
    ELSE IF p.cancelled THEN {0 - 125}
    ELSE IF p.opcode \in {"Shutdown", "Close"} THEN {0 - 1, 0}
    ELSE {0 - 1, 1}

\* the operations in flight after the kernel finished p: what an
\* AsyncCancel named is cancelled
IoFinished(p, inflight) ==
    {IF p.opcode = "AsyncCancel" /\ q.user_data = p.target
     THEN [q EXCEPT !.cancelled = TRUE] ELSE q : q \in inflight \ {p}}

\* the completion entry of operation p
IoCqe(p, result) ==
    [user_data |-> p.user_data, more |-> FALSE, serial |-> p.serial, shot |-> 1,
     result |-> result]

\* the kernel finishes operation p and a tick folds its entry into the table
io_complete(p, result) ==
    LET fold == FoldEntry(operations, IoCqe(p, result))
    IN  /\ ~fold.panic
        /\ operations' = fold.operations
        /\ pending' = IoFinished(p, pending)
        /\ io' = Io("tick", "Ok", NoOutput, -1, IoCqe(p, result), 0, 0, FALSE)
        /\ UNCHANGED <<pollio, shared, submitted>>
        /\ UNCHANGED <<ringVars, facadeVars, catalogVars, executorVars, blockVars, cellVars>>

\* an error that is no result of a completion entry: of read(2)
\* ("Interrupted", "WouldBlock", "Other") or of submit_operation ("Submission")
IoError(kind) == [tag |-> "Err", kind |-> kind, n |-> 0, entry |-> << >>]

\* the state a call on an adapter leaves and the record of the call
IoReturn(st, call, ret, out, drove, entry, syscalls, sqes, selfwake) ==
    [st |-> st, io |-> Io(call, ret, out, drove, entry, syscalls, sqes, selfwake)]

\* what read(2) on the non-blocking descriptor may return
ReadOutcomes == {"Ok", "Interrupted", "WouldBlock", "Other"}

\* variant: an interrupted read(2) is returned to the task as an error
ReadSyscallSurfacesInterrupted(st, sys, ok, drove, entry) ==
    IF sys = "Ok"
    THEN IoReturn(st, "poll_read", "Ready", Ok("usize", 1, << >>), drove, entry, 1, 0, FALSE)
    ELSE IoReturn(st, "poll_read", "Ready", IoError(sys), drove, entry, 1, 0, FALSE)

\* PollIo::poll_read from the call of read(2) on: the match on its result
ReadSyscall(st, sys, ok, drove, entry) ==
    CASE sys = "Ok" ->
           IoReturn(st, "poll_read", "Ready", Ok("usize", 1, << >>), drove, entry, 1, 0, FALSE)
      [] sys = "Interrupted" ->
           IoReturn(st, "poll_read", "Pending", NoOutput, drove, entry, 1, 0, TRUE)
      [] sys = "WouldBlock" ->
           LET s == IoSubmit(st, Sqe("PollAdd(POLLIN)", -1, "read", FALSE), IoTask, ok)
           IN  IF s.ret = "Ok"
               THEN IoReturn([s.st EXCEPT !.pollio.read = s.handle], "poll_read",
                             "Pending", NoOutput, drove, entry, 1, 1, FALSE)
               ELSE IoReturn(s.st, "poll_read", "Ready", IoError("Submission"),
                             drove, entry, 1, 1, FALSE)
      [] sys = "Other" ->
           IoReturn(st, "poll_read", "Ready", IoError("Other"), drove, entry, 1, 0, FALSE)

\* PollIo::poll_read of crates/uring-adapter
PollRead(st, sys, ok) ==
    LET h == st.pollio.read
    IN  IF h = -1 THEN ReadSyscall(st, sys, ok, -1, NoEntry)
        ELSE LET d == IoDrive(st, h, IoTask)
                 cleared == [d.st EXCEPT !.pollio.read = -1]
             IN  CASE d.ret = "Panic" ->
                        IoReturn(st, "poll_read", "Panic", NoOutput, h, NoEntry, 0, 0, FALSE)
                   [] d.ret = "Pending" ->
                        IoReturn(d.st, "poll_read", "Pending", NoOutput, h, NoEntry, 0, 0, FALSE)
                   [] d.ret = "Ready" ->
                        IF is_negative(d.entry.result)
                        THEN IoReturn(cleared, "poll_read", "Ready",
                                      from_raw_os_error(0 - d.entry.result),
                                      h, d.entry, 0, 0, FALSE)
                        ELSE ReadSyscall(cleared, sys, ok, h, d.entry)

\* PollIo::poll_write of crates/uring-adapter
PollWrite(st, ok) ==
    LET h == st.pollio.write
    IN  IF h # -1
        THEN LET d == IoDrive(st, h, IoTask)
                 cleared == [d.st EXCEPT !.pollio.write = -1]
                 amount == try_into(d.entry.result)
             IN  CASE d.ret = "Panic" ->
                        IoReturn(st, "poll_write", "Panic", NoOutput, h, NoEntry, 0, 0, FALSE)
                   [] d.ret = "Pending" ->
                        IoReturn(d.st, "poll_write", "Pending", NoOutput, h, NoEntry, 0, 0, FALSE)
                   [] d.ret = "Ready" ->
                        IoReturn(cleared, "poll_write", "Ready",
                                 IF amount.ok THEN Ok("usize", amount.value, << >>)
                                 ELSE from_raw_os_error(0 - d.entry.result),
                                 h, d.entry, 0, 0, FALSE)
        ELSE LET s == IoSubmit(st, Sqe("Write", -1, "write", TRUE), IoTask, ok)
             IN  IF s.ret = "Ok"
                 THEN IoReturn([s.st EXCEPT !.pollio.write = s.handle], "poll_write",
                               "Pending", NoOutput, -1, NoEntry, 0, 1, FALSE)
                 ELSE IoReturn(s.st, "poll_write", "Ready", IoError("Submission"),
                               -1, NoEntry, 0, 1, FALSE)

\* variant: the write slot is selected when it holds a handle
RemainingWriteInFlight(p) ==
    IF p.read # -1 THEN "read"
    ELSE IF p.write # -1 THEN "write"
    ELSE "dummy"

\* PollIo::poll_shutdown, `let remaining = ..`: the slot the call works on
Remaining(p) ==
    IF p.read # -1 THEN "read"
    ELSE IF p.write = -1 THEN "write"
    ELSE "dummy"

\* the value of that slot; `dummy` is None
SlotValue(p, slot) == IF slot = "dummy" THEN -1 ELSE p[slot]

\* `*slot = None`
SlotCleared(p, slot) == IF slot = "dummy" THEN p ELSE [p EXCEPT ![slot] = -1]

\* poll_shutdown: submit an operation and keep its handle in `shutdown`
ShutdownSubmit(st, sqe, ok) ==
    LET s == IoSubmit(st, sqe, IoTask, ok)
    IN  IF s.ret = "Ok"
        THEN IoReturn([s.st EXCEPT !.pollio.shutdown = s.handle], "poll_shutdown",
                      "Pending", NoOutput, -1, NoEntry, 0, 1, FALSE)
        ELSE IoReturn(s.st, "poll_shutdown", "Ready", IoError("Submission"),
                      -1, NoEntry, 0, 1, FALSE)

\* PollIo::poll_shutdown of crates/uring-adapter
PollShutdown(st, ok) ==
    LET slot == Remaining(st.pollio)
        remaining == SlotValue(st.pollio, slot)
        h == st.pollio.shutdown
        d == IoDrive(st, h, IoTask)
    IN  CASE remaining # -1 /\ h = -1 ->
               ShutdownSubmit(st, Sqe("AsyncCancel", remaining, "shutdown", FALSE), ok)
          [] remaining = -1 /\ h = -1 ->
               ShutdownSubmit(st, Sqe("Shutdown", -1, "shutdown", FALSE), ok)
          [] h # -1 /\ d.ret = "Panic" ->
               IoReturn(st, "poll_shutdown", "Panic", NoOutput, h, NoEntry, 0, 0, FALSE)
          [] h # -1 /\ d.ret = "Pending" ->
               IoReturn(d.st, "poll_shutdown", "Pending", NoOutput, h, NoEntry, 0, 0, FALSE)
          [] remaining # -1 /\ h # -1 /\ d.ret = "Ready" ->
               LET cleared == [d.st EXCEPT !.pollio =
                                  SlotCleared([@ EXCEPT !.shutdown = -1], slot)]
               IN  IF is_negative(d.entry.result)
                   THEN IoReturn(cleared, "poll_shutdown", "Ready",
                                 from_raw_os_error(0 - d.entry.result),
                                 h, d.entry, 0, 0, FALSE)
                   ELSE IoReturn(cleared, "poll_shutdown", "Pending", NoOutput,
                                 h, d.entry, 0, 0, TRUE)
          [] remaining = -1 /\ h # -1 /\ d.ret = "Ready" ->
               LET cleared == [d.st EXCEPT !.pollio.shutdown = -1]
               IN  IoReturn(cleared, "poll_shutdown", "Ready",
                            IF is_negative(d.entry.result)
                            THEN from_raw_os_error(0 - d.entry.result)
                            ELSE Ok("unit", 0, << >>),
                            h, d.entry, 0, 0, FALSE)

\* PollIo::poll_close of crates/uring-adapter
PollClose(st, ok) ==
    LET h == st.pollio.close
    IN  IF h # -1
        THEN LET d == IoDrive(st, h, IoTask)
                 cleared == [d.st EXCEPT !.pollio.close = -1]
             IN  CASE d.ret = "Panic" ->
                        IoReturn(st, "poll_close", "Panic", NoOutput, h, NoEntry, 0, 0, FALSE)
                   [] d.ret = "Pending" ->
                        IoReturn(d.st, "poll_close", "Pending", NoOutput, h, NoEntry, 0, 0, FALSE)
                   [] d.ret = "Ready" ->
                        IoReturn(cleared, "poll_close", "Ready",
                                 IF is_negative(d.entry.result)
                                 THEN from_raw_os_error(0 - d.entry.result)
                                 ELSE Ok("unit", 0, << >>),
                                 h, d.entry, 0, 0, FALSE)
        ELSE LET s == IoSubmit(st, Sqe("Close", -1, "close", FALSE), IoTask, ok)
             IN  IF s.ret = "Ok"
                 THEN IoReturn([s.st EXCEPT !.pollio.close = s.handle], "poll_close",
                               "Pending", NoOutput, -1, NoEntry, 0, 1, FALSE)
                 ELSE IoReturn(s.st, "poll_close", "Ready", IoError("Submission"),
                               -1, NoEntry, 0, 1, FALSE)

\* a call on an adapter takes effect; no call follows a panic, and the
\* calls that submit stop at MaxSqes submissions
IoCall(r) ==
    /\ io.ret # "Panic"
    /\ r.io.sqes = 0 \/ Len(submitted) < MaxSqes
    /\ pollio' = r.st.pollio
    /\ shared' = r.st.shared
    /\ operations' = r.st.operations
    /\ pending' = r.st.pending
    /\ submitted' = r.st.submitted
    /\ io' = r.io
    /\ UNCHANGED <<ringVars, facadeVars, catalogVars, executorVars, blockVars, cellVars>>

poll_read(sys, ok) == IoCall(PollRead(IoNow, sys, ok))

poll_write(ok) == IoCall(PollWrite(IoNow, ok))

poll_shutdown(ok) == IoCall(PollShutdown(IoNow, ok))

poll_close(ok) == IoCall(PollClose(IoNow, ok))

\* PollIo goes out of scope: `impl Drop for PollIo { fn drop(&mut self) {} }`
\* runs and then the fields are dropped; the drop of `file: OwnedFd` calls
\* close(2) on the descriptor.  The handles are plain indices, their slots
\* stay in the table.
drop_pollio ==
    /\ io.ret # "Panic"
    /\ pollio.file = "owned"
    /\ pollio' = [pollio EXCEPT !.file = "closed"]
    /\ io' = Io("drop", "None", NoOutput, -1, NoEntry, 1, 0, FALSE)
    /\ UNCHANGED <<shared, operations, pending, submitted>>
    /\ UNCHANGED <<ringVars, facadeVars, catalogVars, executorVars, blockVars, cellVars>>

(* ------------------- PollIo with one operation slot ------------------- *)
(* The PollIo of src/adapter.rs, which the binary uses, keeps one         *)
(* `operation` slot for all four directions.                              *)

\* a submission of this PollIo: the handle goes to the `operation` slot
SharedSubmit(st, call, sqe, ok, drove, entry, syscalls) ==
    LET s == IoSubmit(st, sqe, IoTask, ok)
    IN  IF s.ret = "Ok"
        THEN IoReturn([s.st EXCEPT !.shared.operation = s.handle], call,
                      "Pending", NoOutput, drove, entry, syscalls, 1, FALSE)
        ELSE IoReturn(s.st, call, "Ready", IoError("Submission"),
                      drove, entry, syscalls, 1, FALSE)

\* poll_read from the call of read(2) on
SharedReadSyscall(st, sys, ok, drove, entry) ==
    CASE sys = "Ok" ->
           IoReturn(st, "poll_read", "Ready", Ok("usize", 1, << >>), drove, entry, 1, 0, FALSE)
      [] sys = "Interrupted" ->
           IoReturn(st, "poll_read", "Pending", NoOutput, drove, entry, 1, 0, TRUE)
      [] sys = "WouldBlock" ->
           SharedSubmit(st, "poll_read", Sqe("PollAdd(POLLIN)", -1, "read", FALSE),
                        ok, drove, entry, 1)
      [] sys = "Other" ->
           IoReturn(st, "poll_read", "Ready", IoError("Other"), drove, entry, 1, 0, FALSE)

\* PollIo::poll_read of src/adapter.rs
SharedPollRead(st, sys, ok) ==
    LET h == st.shared.operation
    IN  IF h = -1 THEN SharedReadSyscall(st, sys, ok, -1, NoEntry)
        ELSE LET d == IoDrive(st, h, IoTask)
                 cleared == [d.st EXCEPT !.shared.operation = -1]
             IN  CASE d.ret = "Panic" ->
                        IoReturn(st, "poll_read", "Panic", NoOutput, h, NoEntry, 0, 0, FALSE)
                   [] d.ret = "Pending" ->
                        IoReturn(d.st, "poll_read", "Pending", NoOutput, h, NoEntry, 0, 0, FALSE)
                   [] d.ret = "Ready" ->
                        IF is_negative(d.entry.result)
                        THEN IoReturn(cleared, "poll_read", "Ready",
                                      from_raw_os_error(0 - d.entry.result),
                                      h, d.entry, 0, 0, FALSE)
                        ELSE SharedReadSyscall(cleared, sys, ok, h, d.entry)

\* `entry.result().try_into().map_err(..)` of poll_write
WriteOutput(entry) ==
    IF try_into(entry.result).ok
    THEN Ok("usize", try_into(entry.result).value, << >>)
    ELSE from_raw_os_error(0 - entry.result)

\* the result of poll_shutdown and poll_close
UnitOutput(entry) ==
    IF is_negative(entry.result)
    THEN from_raw_os_error(0 - entry.result)
    ELSE Ok("unit", 0, << >>)

\* poll_write, poll_shutdown and poll_close of src/adapter.rs with a handle
\* in the slot: drive it and return what its entry says
SharedDrive(st, call) ==
    LET h == st.shared.operation
        d == IoDrive(st, h, IoTask)
        cleared == [d.st EXCEPT !.shared.operation = -1]
    IN  CASE d.ret = "Panic" ->
               IoReturn(st, call, "Panic", NoOutput, h, NoEntry, 0, 0, FALSE)
          [] d.ret = "Pending" ->
               IoReturn(d.st, call, "Pending", NoOutput, h, NoEntry, 0, 0, FALSE)
          [] d.ret = "Ready" ->
               IoReturn(cleared, call, "Ready",
                        IF call = "poll_write" THEN WriteOutput(d.entry)
                        ELSE UnitOutput(d.entry),
                        h, d.entry, 0, 0, FALSE)

\* PollIo::poll_write of src/adapter.rs
SharedPollWrite(st, ok) ==
    IF st.shared.operation # -1
    THEN SharedDrive(st, "poll_write")
    ELSE SharedSubmit(st, "poll_write", Sqe("Write", -1, "write", TRUE), ok, -1, NoEntry, 0)

\* PollIo::poll_shutdown of src/adapter.rs
SharedPollShutdown(st, ok) ==
    IF st.shared.operation # -1
    THEN SharedDrive(st, "poll_shutdown")
    ELSE SharedSubmit(st, "poll_shutdown", Sqe("Shutdown", -1, "shutdown", FALSE),
                      ok, -1, NoEntry, 0)

\* PollIo::poll_close of src/adapter.rs
SharedPollClose(st, ok) ==
    IF st.shared.operation # -1
    THEN SharedDrive(st, "poll_close")
    ELSE SharedSubmit(st, "poll_close", Sqe("Close", -1, "close", FALSE), ok, -1, NoEntry, 0)

shared_poll_read(sys, ok) == IoCall(SharedPollRead(IoNow, sys, ok))

shared_poll_write(ok) == IoCall(SharedPollWrite(IoNow, ok))

shared_poll_shutdown(ok) == IoCall(SharedPollShutdown(IoNow, ok))

shared_poll_close(ok) == IoCall(SharedPollClose(IoNow, ok))

(* ------------------------ Cancel by identifier ------------------------ *)
(* A task submits operations of its own through Oneshot, keeps their      *)
(* OperationId (operation_handle) and may submit Cancel::new(id) for one. *)

\* submission i of the log has ended and its entry has been taken by
\* drive_operation, which removed the slot and freed the identifier
Consumed(st, i) ==
    LET r == st.submitted[i]
    IN  /\ r.accepted
        /\ \A q \in st.pending : q.serial # r.serial
        /\ ~(/\ SlabContains(st.operations, r.user_data)
             /\ SlabGet(st.operations, r.user_data).tag = "Completed"
             /\ SlabGet(st.operations, r.user_data).entry.serial = r.serial)

\* Oneshot::poll of a Raw operation without handle: the submission
RawSubmit(st, ok) ==
    LET s == IoSubmit(st, Sqe("Raw", -1, "raw", FALSE), IoTask, ok)
    IN  IoReturn(s.st, "submit_raw", IF ok THEN "Pending" ELSE "Ready",
                 IF ok THEN NoOutput ELSE IoError("Submission"),
                 -1, NoEntry, 0, 1, FALSE)

\* variant: the AsyncCancel entry is built without the identifier
CancelSubmitNamesNothing(st, i) ==
    LET s == IoSubmit(st, Sqe("AsyncCancel", -1, "cancel", FALSE), IoTask, TRUE)
    IN  IoReturn(s.st, "submit_cancel", "Pending", NoOutput, -1, NoEntry, 0, 1, FALSE)

\* Oneshot::poll of Cancel::new(id) without handle, id being the
\* identifier submission i was given: AsyncCancel with that user data
CancelSubmit(st, i) ==
    LET s == IoSubmit(st, Sqe("AsyncCancel", st.submitted[i].user_data, "cancel", FALSE),
                      IoTask, TRUE)
    IN  IoReturn(s.st, "submit_cancel", "Pending", NoOutput, -1, NoEntry, 0, 1, FALSE)

\* Oneshot::poll with handle h of submission i: drive_operation, and
\* process_completion of Cancel or Raw on the entry
OneshotPoll(st, i) ==
    LET r == st.submitted[i]
        d == IoDrive(st, r.user_data, IoTask)
    IN  CASE d.ret = "Panic" ->
               IoReturn(st, "poll", "Panic", NoOutput, r.user_data, NoEntry, 0, 0, FALSE)
          [] d.ret = "Pending" ->
               IoReturn(d.st, "poll", "Pending", NoOutput, r.user_data, NoEntry, 0, 0, FALSE)
          [] d.ret = "Ready" ->
               IoReturn(d.st, "poll", "Ready",
                        IF r.opcode = "AsyncCancel"
                        THEN Cancel_process_completion(0, d.entry)
                        ELSE Raw_process_completion(0, d.entry),
                        r.user_data, d.entry, 0, 0, FALSE)

\* a task starts an operation
submit_raw(ok) == IoCall(RawSubmit(IoNow, ok))

\* a task cancels by an identifier whose operation has completed
submit_cancel(i) ==
    /\ i \in 1..Len(submitted)
    /\ submitted[i].opcode = "Raw"
    /\ Consumed(IoNow, i)
    /\ IoCall(CancelSubmit(IoNow, i))

\* a task polls the future of a submission that has not resolved
oneshot_poll(i) ==
    /\ i \in 1..Len(submitted)
    /\ submitted[i].accepted
    /\ ~Consumed(IoNow, i)
    /\ IoCall(OneshotPoll(IoNow, i))

\* submission i of the log is in the kernel's hands
Inflight(i) == \E q \in pending : q.serial = i

\* a task cancels an operation of its own that is in flight and that no
\* Cancel names yet
submit_cancel_inflight(i) ==
    /\ i \in 1..Len(submitted)
    /\ submitted[i].opcode = "Raw"
    /\ Inflight(i)
    /\ \A q \in pending : ~(q.opcode = "AsyncCancel" /\ q.target = submitted[i].user_data)
    /\ \A q \in pending : q.serial = i => ~q.cancelled
    /\ IoCall(CancelSubmit(IoNow, i))

\* the kernel with long-running operations (PollAdd on a pipe without
\* data): it finishes an AsyncCancel, and an operation once it is cancelled
LongRunningKernelStep ==
    \E p \in pending : \E result \in IoResults(p, pending) :
       /\ io.ret # "Panic"
       /\ p.opcode = "AsyncCancel" \/ p.cancelled
       /\ io_complete(p, result)

\* the kernel finishes an operation of an adapter and a tick folds its entry
IoKernelStep ==
    \E p \in pending : \E result \in IoResults(p, pending) :
       io.ret # "Panic" /\ io_complete(p, result)

(* ---------------- the reactor with the state Submitted ---------------- *)
(* src/reactor.rs, the reactor of the binary: submit_operation takes an   *)
(* Option<Waker>, and a slot submitted without one is in the fourth state *)
(* Submitted until it is driven or completed.  The other three arms of    *)
(* drive_operation and tick are those of crates/uring-reactor.            *)

\* Option<Waker>::None
NoWaker == 0

\* OperationState::Submitted
Submitted == [tag |-> "Submitted"]

\* Reactor::submit_operation(entry, waker: Option<Waker>)
OptionSubmit(slab, queue, inflight, multi, waker, serial, submitOk) ==
    LET index == slab.next
        inserted == SlabInsert(slab, IF waker = NoWaker THEN Submitted
                                     ELSE Waiting(waker))
        entry == [user_data |-> index, multi |-> multi, serial |-> serial]
        view == SplitSubmission(queue)
    IN  IF ~SqIsFull(view)
        THEN SubmitResult(inserted, Append(queue, entry), inflight, "Ok", index, 1, 0)
        ELSE IF ~submitOk
        THEN SubmitResult(inserted, queue, inflight, "Err", -1, 1, 1)
        ELSE IF ~SqIsFull(view)
             THEN SubmitResult(inserted, <<entry>>, Consume(inflight, queue), "Ok", index, 2, 1)
             ELSE SubmitResult(inserted, << >>, Consume(inflight, queue), "Err", -1, 2, 1)

option_submit_operation(multi, waker, submitOk) ==
    /\ ~panicked
    /\ issued < MaxOps
    /\ LET serial == issued + 1
           r == OptionSubmit(operations, sq, kernel, multi, waker, serial, submitOk)
       IN  /\ operations' = r.operations
           /\ sq' = r.sq
           /\ kernel' = r.kernel
           /\ issued' = serial
           /\ futures' = [futures EXCEPT ![serial] =
                  [handle |-> r.handle,
                   state |-> IF r.ret = "Ok" THEN "held" ELSE "failed"]]
           /\ parked' = [parked EXCEPT ![serial] =
                  IF r.ret = "Ok" /\ waker # NoWaker
                  THEN [task |-> waker, woken |-> FALSE]
                  ELSE NoPark]
           /\ last' = Call("submit", waker, r.handle, serial, r.ret, NoEntry,
                           << >>, r.pushes, r.flushes,
                           IF r.flushes > 0 THEN "submit" ELSE "none")
    /\ UNCHANGED <<cq, posted, drained, delivered, panicked>>

\* variant: the slot stays Submitted, the caller's waker is not stored
DriveSubmittedForgetsWaker(slab, handle, waker) ==
    DriveResult(slab, "Pending", NoEntry, << >>)

\* match arm OperationState::Submitted of drive_operation
DriveSubmitted(slab, handle, waker) ==
    DriveResult(SlabSet(slab, handle, Waiting(waker)), "Pending", NoEntry, << >>)

\* Reactor::drive_operation on a handle whose slot is present
OptionDrive(slab, handle, waker) ==
    IF SlabGet(slab, handle).tag = "Submitted"
    THEN DriveSubmitted(slab, handle, waker)
    ELSE Drive(slab, handle, waker)

option_drive_operation(serial, waker) ==
    /\ ~panicked
    /\ futures[serial].state = "held"
    /\ LET handle == futures[serial].handle
       IN  IF ~SlabContains(operations, handle)
           THEN /\ panicked' = TRUE
                /\ last' = Call("drive", waker, handle, serial, "Panic", NoEntry,
                                << >>, 0, 0, "none")
                /\ UNCHANGED <<operations, futures, delivered, parked>>
           ELSE LET r == OptionDrive(operations, handle, waker)
                IN  /\ operations' = r.operations
                    /\ delivered' = [delivered EXCEPT ![serial] =
                           IF r.ret = "Ready" THEN Append(@, r.entry) ELSE @]
                    /\ futures' = [futures EXCEPT ![serial] =
                           IF r.ret = "Ready" /\ ~more(r.entry)
                           THEN [@ EXCEPT !.handle = -1, !.state = "done"]
                           ELSE @]
                    /\ parked' = Wake([parked EXCEPT ![serial] =
                                          IF r.ret = "Ready" /\ ~more(r.entry)
                                          THEN NoPark
                                          ELSE [task |-> waker, woken |-> FALSE]],
                                      futures, r.wakes)
                    /\ last' = Call("drive", waker, handle, serial, r.ret, r.entry,
                                    r.wakes, 0, 0, "none")
                    /\ UNCHANGED panicked
    /\ UNCHANGED <<sq, cq, kernel, issued, posted, drained>>

\* match arm OperationState::Submitted of tick: the slot completes, there
\* is no waker to wake
FoldSubmitted(slab, key, entry) ==
    FoldResult(SlabSet(slab, key, Completed(entry)), << >>, FALSE)

\* one iteration of the loop `for entry in completion`
OptionFoldEntry(slab, entry) ==
    IF /\ SlabContains(slab, entry.user_data)
       /\ SlabGet(slab, entry.user_data).tag = "Submitted"
    THEN FoldSubmitted(slab, entry.user_data, entry)
    ELSE FoldEntry(slab, entry)

RECURSIVE OptionFold(_, _)
\* the whole loop over the completion view
OptionFold(acc, completion) ==
    IF completion = << >> THEN acc
    ELSE IF acc.panic THEN acc
    ELSE LET r == OptionFoldEntry(acc.operations, Head(completion))
         IN  OptionFold([operations |-> r.operations,
                         wakes |-> acc.wakes \o r.wakes,
                         taken |-> Append(acc.taken, Head(completion)),
                         panic |-> r.panic],
                        Tail(completion))

\* Reactor::tick, completion ring not empty at entry
option_tick_drain(syscallOk) ==
    /\ ~panicked
    /\ cq # << >>
    /\ LET syscall == IF sq # << >> THEN "submit" ELSE "none"
       IN  IF syscall = "submit" /\ ~syscallOk
           THEN /\ last' = Call("tick", 0, -1, 0, "Err", NoEntry, << >>, 0, 0,
                                syscall)
                /\ UNCHANGED <<operations, sq, cq, kernel, drained, parked,
                               panicked>>
           ELSE LET acc == OptionFold(FoldStart(operations), cq)
                IN  /\ sq' = << >>
                    /\ kernel' = Consume(kernel, sq)
                    /\ cq' = << >>
                    /\ operations' = acc.operations
                    /\ drained' = [s \in Serials |->
                           drained[s] \o EntriesOf(acc.taken, s)]
                    /\ parked' = Wake(parked, futures, acc.wakes)
                    /\ panicked' = acc.panic
                    /\ last' = Call("tick", 0, -1, 0,
                                    IF acc.panic THEN "Panic" ELSE "Ok",
                                    NoEntry, acc.wakes, 0, 0, syscall)
    /\ UNCHANGED <<issued, posted, futures, delivered>>

(* --------------------------- specification ---------------------------- *)

\* the outcomes of the syscall a call makes, TRUE (success) alone when it
\* makes none
Outcomes(makesSyscall) == IF makesSyscall THEN BOOLEAN ELSE {TRUE}

\* tasks call the reactor directly
Next ==
    \/ \E multi \in BOOLEAN, waker \in Tasks :
          \E submitOk \in Outcomes(SqIsFull(SplitSubmission(sq))) :
             submit_operation(multi, waker, submitOk) /\ UNCHANGED <<facadeVars, catalogVars, executorVars, outerVars>>
    \/ \E serial \in Serials, waker \in Tasks :
          drive_operation(serial, waker) /\ UNCHANGED <<facadeVars, catalogVars, executorVars, outerVars>>
    \/ \E syscallOk \in BOOLEAN : tick_wait(syscallOk) /\ UNCHANGED <<facadeVars, catalogVars, executorVars, outerVars>>
    \/ \E syscallOk \in Outcomes(sq # << >>) :
          tick_drain(syscallOk) /\ UNCHANGED <<facadeVars, catalogVars, executorVars, outerVars>>
    \/ \E k \in kernel : \E m \in MoreChoices(k) :
          kernel_complete(k, m) /\ UNCHANGED <<facadeVars, catalogVars, executorVars, outerVars>>

Spec == Init /\ [][Next]_vars

\* a step of the reactor or the kernel while futures and streams exist
FacadeIdle ==
    /\ ~Aborted
    /\ polled' = NoPoll
    /\ UNCHANGED <<wrappers, catalogVars, executorVars, outerVars>>

\* a step of tick, of either kind
TickStep ==
    \/ \E syscallOk \in BOOLEAN : tick_wait(syscallOk) /\ FacadeIdle
    \/ \E syscallOk \in Outcomes(sq # << >>) : tick_drain(syscallOk) /\ FacadeIdle

\* a step of the kernel
KernelStep ==
    \E k \in kernel : \E m \in MoreChoices(k) : kernel_complete(k, m) /\ FacadeIdle

\* tasks await Oneshot futures, over operations of either kind of opcode
NextOneshot ==
    \/ \E w \in Serials : \E multi \in Opcodes(w) :
          \E submitOk \in Outcomes(SqIsFull(SplitSubmission(sq))) :
             poll(w, multi, submitOk)
    \/ TickStep
    \/ KernelStep

SpecOneshot == Init /\ [][NextOneshot]_vars

\* tasks consume Multishot streams, over operations of either kind of opcode
NextMultishot ==
    \/ \E w \in Serials : \E multi \in Opcodes(w) :
          \E submitOk \in Outcomes(SqIsFull(SplitSubmission(sq))) :
             poll_next(w, multi, submitOk)
    \/ TickStep
    \/ KernelStep

SpecMultishot == Init /\ [][NextMultishot]_vars

\* tasks use both: futures for operations with a single completion,
\* streams for operations with a multishot opcode
NextFacade ==
    \/ \E w \in Serials : \E multi \in Opcodes(w) \cap {FALSE} :
          \E submitOk \in Outcomes(SqIsFull(SplitSubmission(sq))) :
             poll(w, multi, submitOk)
    \/ \E w \in Serials : \E multi \in Opcodes(w) \cap {TRUE} :
          \E submitOk \in Outcomes(SqIsFull(SplitSubmission(sq))) :
             poll_next(w, multi, submitOk)
    \/ TickStep
    \/ KernelStep

SpecFacade == Init /\ [][NextFacade]_vars

\* tasks await Oneshot futures and may drop them before they resolve
NextDrop ==
    \/ \E w \in Serials : \E multi \in Opcodes(w) :
          \E submitOk \in Outcomes(SqIsFull(SplitSubmission(sq))) :
             poll(w, multi, submitOk)
    \/ \E w \in Serials : drop(w)
    \/ TickStep
    \/ KernelStep

SpecDrop == Init /\ [][NextDrop]_vars

\* the poll loop keeps calling tick and the kernel finishes what it holds
SpecDropFair == SpecDrop /\ WF_vars(TickStep) /\ WF_vars(KernelStep)

\* every operation of the catalog processes every completion entry
NextInterpret ==
    \E op \in Catalog : \E len \in Lengths(op) : \E entry \in CatalogEntries :
       interpret(op, len, entry)

SpecInterpret == Init /\ [][NextInterpret]_vars

\* tasks are spawned, woken and run by the executor
NextExecutor ==
    \/ \E outcome \in PollOutcomes(NoRunnable) : spawn(outcome)
    \/ \E t \in Spawns : wake(t)
    \/ \E outcome \in {"Ready", "Pending", "PendingWoken"} : executor_tick_run(outcome)
    \/ executor_tick_return

SpecExecutor == Init /\ [][NextExecutor]_vars

\* threads run block_on over futures and tickers of any behaviour
NextBlockOn ==
    \/ \E l \in Loops : \E outcome \in PollReturns : block_on_poll(l, outcome)
    \/ \E l \in Loops : \E outcome \in TickerReturns : block_on_ticker(l, outcome)

SpecBlockOn == Init /\ [][NextBlockOn]_vars

\* cells are acquired and their guards dropped in any order
NextCells ==
    \/ \E c \in Cells : assume_unique_access(c)
    \/ \E c \in Cells : drop_guard(c)

SpecCells == Init /\ [][NextCells]_vars

\* the thread runs the executor, the tasks and the reactor, one statement
\* at a time
NextScopes ==
    \/ scope_spawn
    \/ scope_executor_tick
    \/ \E some \in BOOLEAN : scope_executor_tick_pop(some)
    \/ scope_wake_running
    \/ scope_wake_schedules
    \/ scope_run_return
    \/ scope_submit_operation
    \/ scope_drive_operation
    \/ scope_reactor_tick

SpecScopes == Init /\ [][NextScopes]_vars

\* a task uses the PollIo of crates/uring-adapter in every direction
NextAdapter ==
    \/ \E sys \in ReadOutcomes : \E ok \in Outcomes(sys = "WouldBlock") :
          poll_read(sys, ok)
    \/ \E ok \in Outcomes(pollio.write = -1) : poll_write(ok)
    \/ \E ok \in Outcomes(pollio.shutdown = -1) : poll_shutdown(ok)
    \/ \E ok \in Outcomes(pollio.close = -1) : poll_close(ok)
    \/ IoKernelStep

SpecAdapter == Init /\ [][NextAdapter]_vars

\* a task writes to, shuts down and closes its PollIo, and drops it at any
\* point
NextClose ==
    \/ \E ok \in Outcomes(pollio.write = -1) : pollio.file = "owned" /\ poll_write(ok)
    \/ \E ok \in Outcomes(pollio.shutdown = -1) : pollio.file = "owned" /\ poll_shutdown(ok)
    \/ \E ok \in Outcomes(pollio.close = -1) : pollio.file = "owned" /\ poll_close(ok)
    \/ drop_pollio
    \/ IoKernelStep

SpecClose == Init /\ [][NextClose]_vars

\* the PollIo of src/adapter.rs under every interleaving of its four calls
NextSharedSlot ==
    \/ \E sys \in ReadOutcomes : \E ok \in Outcomes(sys = "WouldBlock") :
          shared_poll_read(sys, ok)
    \/ \E ok \in Outcomes(shared.operation = -1) : shared_poll_write(ok)
    \/ \E ok \in Outcomes(shared.operation = -1) : shared_poll_shutdown(ok)
    \/ \E ok \in Outcomes(shared.operation = -1) : shared_poll_close(ok)
    \/ IoKernelStep

SpecSharedSlot == Init /\ [][NextSharedSlot]_vars

\* a task that submits operations, polls them and cancels completed ones
NextCancel ==
    \/ \E ok \in BOOLEAN : submit_raw(ok)
    \/ \E i \in 1..MaxSqes : submit_cancel(i)
    \/ \E i \in 1..MaxSqes : oneshot_poll(i)
    \/ IoKernelStep

SpecCancel == Init /\ [][NextCancel]_vars

\* a task submits long-running operations, cancels them while they are in
\* flight and polls the futures
NextCancelInflight ==
    \/ \E ok \in BOOLEAN : submit_raw(ok)
    \/ \E i \in 1..MaxSqes : submit_cancel_inflight(i)
    \/ \E i \in 1..MaxSqes : oneshot_poll(i)
    \/ LongRunningKernelStep

SpecCancelInflight == Init /\ [][NextCancelInflight]_vars

\* the runtime keeps ticking and polling: the kernel finishes what it can
\* and every future that can make progress is polled
SpecCancelInflightFair ==
    /\ SpecCancelInflight
    /\ WF_vars(LongRunningKernelStep)
    /\ \A i \in 1..MaxSqes : WF_vars(oneshot_poll(i))

\* the program of src/main.rs: spawned tasks, block_on and its ticker
NextRuntime ==
    \/ \E multi \in BOOLEAN :
          \E submitOk \in Outcomes(SqIsFull(SplitSubmission(sq))) :
             runtime_spawn(multi, submitOk)
    \/ runtime_block_on_poll
    \/ \E submitOk \in Outcomes(SqIsFull(SplitSubmission(sq))) :
          runtime_executor_tick_run(wrappers[Head(tasks)].multi, submitOk)
    \/ runtime_executor_tick_return
    \/ \E syscallOk \in BOOLEAN : runtime_reactor_tick(syscallOk)
    \/ KernelStep

SpecRuntime == Init /\ [][NextRuntime]_vars

\* a step of the runtime in which every syscall made succeeds
RuntimeProgress ==
    \/ runtime_block_on_poll
    \/ runtime_executor_tick_run(wrappers[Head(tasks)].multi, TRUE)
    \/ runtime_executor_tick_return
    \/ runtime_reactor_tick(TRUE)
    \/ KernelStep

\* the thread goes on whenever it can: a call that can return does, and
\* the kernel finishes what it has in flight
SpecRuntimeFair == SpecRuntime /\ WF_vars(RuntimeProgress)

\* one task calls the reactor of src/reactor.rs directly, submitting with its
\* waker or with none
NextSubmitted ==
    \/ \E multi \in BOOLEAN, waker \in {NoWaker, 1} :
          \E submitOk \in Outcomes(SqIsFull(SplitSubmission(sq))) :
             option_submit_operation(multi, waker, submitOk) /\ UNCHANGED <<facadeVars, catalogVars, executorVars, outerVars>>
    \/ \E serial \in Serials, waker \in {1} :
          option_drive_operation(serial, waker) /\ UNCHANGED <<facadeVars, catalogVars, executorVars, outerVars>>
    \/ \E syscallOk \in BOOLEAN : tick_wait(syscallOk) /\ UNCHANGED <<facadeVars, catalogVars, executorVars, outerVars>>
    \/ \E syscallOk \in Outcomes(sq # << >>) :
          option_tick_drain(syscallOk) /\ UNCHANGED <<facadeVars, catalogVars, executorVars, outerVars>>
    \/ \E k \in kernel : \E m \in MoreChoices(k) :
          kernel_complete(k, m) /\ UNCHANGED <<facadeVars, catalogVars, executorVars, outerVars>>

SpecSubmitted == Init /\ [][NextSubmitted]_vars

(* ------------------------- shared vocabulary -------------------------- *)

\* the last call was drive_operation and returned Ready with a terminal entry
TerminalDelivery(call) ==
    call.call = "drive" /\ call.ret = "Ready" /\ ~more(call.entry)

\* the slots of all keys but `key` are what they were
OthersUnchanged(before, after, key) ==
    \A k \in SlabKeys(before) \ {key} :
        SlabContains(after, k) /\ SlabGet(after, k) = SlabGet(before, k)

\* the entries of a slot that no drive call has returned yet
SlotEntries(slot) ==
    CASE slot.tag = "Completed" -> <<slot.entry>>
      [] slot.tag = "Unclaimed" -> slot.entries
      [] OTHER -> << >>

\* entries buffered in the slot of submission s
Buffered(s) ==
    IF futures[s].state = "held" /\ SlabContains(operations, futures[s].handle)
    THEN SlotEntries(SlabGet(operations, futures[s].handle))
    ELSE << >>

\* identifier and submission of every entry pushed whose operation the
\* kernel has not finished
InFlightIds ==
    {<<sq[i].user_data, sq[i].serial>> : i \in 1..Len(sq)}
        \cup {<<k.user_data, k.serial>> : k \in kernel}

\* entries of `completion` whose user data is `key`, in ring order
RECURSIVE ByKey(_, _)
ByKey(completion, key) ==
    IF completion = << >> THEN << >>
    ELSE IF Head(completion).user_data = key
         THEN <<Head(completion)>> \o ByKey(Tail(completion), key)
         ELSE ByKey(Tail(completion), key)

\* the per-entry rule of section 4.1, applied to a slot entry after entry
RECURSIVE FoldRule(_, _)
FoldRule(slot, entries) ==
    IF entries = << >> THEN slot
    ELSE FoldRule(CASE slot.tag = "Waiting" -> Completed(Head(entries))
                    [] slot.tag = "Completed" -> Unclaimed(<<slot.entry, Head(entries)>>)
                    [] slot.tag = "Unclaimed" -> Unclaimed(Append(slot.entries, Head(entries))),
                  Tail(entries))

\* how often task t occurs in a sequence of wakes
WakeCount(wakes, t) == Cardinality({i \in 1..Len(wakes) : wakes[i].waker = t})

(* ------------------------------ claims -------------------------------- *)

\* C1: a step removes a slot from the table if and only if it is the
\* drive_operation call on that slot's handle that returns Ready with an
\* entry whose MORE flag is clear; no other drive, no submit and no tick
\* removes a slot.
C1_SlotRemovedIffTerminalDelivery ==
    [][\A k \in SlabKeys(operations) :
          (k \notin SlabKeys(operations'))
              <=> (TerminalDelivery(last') /\ last'.handle = k)]_vars

\* a multishot operation's terminal entry was delivered after two earlier
\* entries, and its identifier is no longer live
C1_Witness ==
    /\ TerminalDelivery(last)
    /\ last.entry.shot = 3
    /\ ~SlabContains(operations, last.handle)

\* C2: for every submission, the entries tick has drained for it are, in
\* ring order, the entries its drive calls have returned followed by the
\* entries still buffered in its slot, and they are in the order the kernel
\* posted them; no entry is lost, duplicated or reordered.
C2_DeliveredInDrainOrder ==
    \A s \in Serials :
        /\ drained[s] = delivered[s] \o Buffered(s)
        /\ \A i \in 1..Len(drained[s]) :
              drained[s][i].serial = s /\ drained[s][i].shot = i

\* a multishot operation has yielded three entries in order and its next
\* drive call was Pending
C2_Witness ==
    \E s \in Serials :
        /\ Len(delivered[s]) = 3
        /\ \A i \in 1..3 : delivered[s][i].shot = i
        /\ last.call = "drive" /\ last.serial = s /\ last.ret = "Pending"

\* C3: the user data of every entry that was pushed and whose operation the
\* kernel has not finished names a slot present in the table, and no two
\* such operations carry the same identifier.
C3_InFlightUserDataIsLive ==
    \A x \in InFlightIds :
        /\ SlabContains(operations, x[1])
        /\ \A y \in InFlightIds : x[1] = y[1] => x[2] = y[2]

\* the second submission runs under identifier 0, recycled from the first
C3_Witness ==
    /\ futures[1].state = "done"
    /\ <<0, 2>> \in InFlightIds

\* C4: a submit_operation call that returns Ok(handle) inserted exactly one
\* slot, at a key that was free, in state Waiting with the caller's waker;
\* it pushed exactly one entry, whose user data is the handle; every other
\* slot is unchanged.
C4_SubmitInsertsWaitingSlot ==
    [][(last'.call = "submit" /\ last'.ret = "Ok") =>
          /\ ~SlabContains(operations, last'.handle)
          /\ SlabKeys(operations') = SlabKeys(operations) \cup {last'.handle}
          /\ SlabGet(operations', last'.handle) = Waiting(last'.waker)
          /\ OthersUnchanged(operations, operations', last'.handle)
          /\ Len(sq') >= 1
          /\ sq'[Len(sq')].user_data = last'.handle
          /\ sq'[Len(sq')].serial = last'.serial
          /\ InFlightIds' = InFlightIds \cup {<<last'.handle, last'.serial>>}
          /\ Cardinality(InFlightIds') = Cardinality(InFlightIds) + 1]_vars

\* a submission succeeded next to a live slot and got the next identifier
C4_Witness ==
    /\ last.call = "submit" /\ last.ret = "Ok" /\ last.handle = 1
    /\ SlabContains(operations, 0)
    /\ SlabGet(operations, 1) = Waiting(last.waker)

\* C5: a tick that returns Ok leaves every slot as the per-entry rule makes
\* it from the entries drained for it (Waiting becomes Completed(e),
\* Completed(e0) becomes Unclaimed([e0, e]), Unclaimed(q) becomes
\* Unclaimed(q ++ [e])); slots without a drained entry are unchanged, no
\* slot is added or removed, and a task is woken exactly once per Waiting
\* slot of its waker that received an entry.
C5_TickFoldsEntries ==
    [][(last'.call = "tick" /\ last'.ret = "Ok") =>
          /\ SlabKeys(operations') = SlabKeys(operations)
          /\ \A k \in SlabKeys(operations) :
                SlabGet(operations', k) = FoldRule(SlabGet(operations, k), ByKey(cq, k))
          /\ \A t \in Tasks :
                WakeCount(last'.wakes, t) =
                    Cardinality({k \in SlabKeys(operations) :
                        /\ SlabGet(operations, k).tag = "Waiting"
                        /\ SlabGet(operations, k).waker = t
                        /\ ByKey(cq, k) # << >>})]_vars

\* a tick has pushed a third entry onto an Unclaimed queue, waking nobody
C5_Witness ==
    /\ last.call = "tick" /\ last.ret = "Ok" /\ last.wakes = << >>
    /\ \E k \in SlabKeys(operations) :
          /\ SlabGet(operations, k).tag = "Unclaimed"
          /\ Len(SlabGet(operations, k).entries) = 3

\* C6: drive_operation on a slot in state Waiting returns Pending, leaves
\* the slot Waiting with a waker that wakes the calling task, consumes no
\* entry, wakes nobody and changes no other slot.
C6_DriveWaitingParksCaller ==
    [][(/\ last'.call = "drive"
        /\ SlabContains(operations, last'.handle)
        /\ SlabGet(operations, last'.handle).tag = "Waiting") =>
          /\ last'.ret = "Pending"
          /\ last'.entry = NoEntry
          /\ last'.wakes = << >>
          /\ SlabKeys(operations') = SlabKeys(operations)
          /\ SlabGet(operations', last'.handle).tag = "Waiting"
          /\ will_wake(SlabGet(operations', last'.handle).waker, last'.waker)
          /\ OthersUnchanged(operations, operations', last'.handle)
          /\ delivered' = delivered
          /\ cq' = cq]_vars

\* a drive call on a Waiting slot returned Pending and the slot holds the
\* caller's waker, while another Waiting slot holds the other task's waker
C6_Witness ==
    /\ last.call = "drive" /\ last.ret = "Pending"
    /\ SlabGet(operations, last.handle) = Waiting(last.waker)
    /\ \E k \in SlabKeys(operations) :
          /\ SlabGet(operations, k).tag = "Waiting"
          /\ SlabGet(operations, k).waker # last.waker

\* C7: drive_operation on a slot in state Completed(e) returns Ready(e) and
\* wakes nobody; the slot is removed when e's MORE flag is clear and becomes
\* Waiting with the caller's waker when it is set; no other slot changes.
C7_DriveCompletedDelivers ==
    [][(/\ last'.call = "drive"
        /\ SlabContains(operations, last'.handle)
        /\ SlabGet(operations, last'.handle).tag = "Completed") =>
          /\ last'.ret = "Ready"
          /\ last'.entry = SlabGet(operations, last'.handle).entry
          /\ last'.wakes = << >>
          /\ OthersUnchanged(operations, operations', last'.handle)
          /\ IF ~more(last'.entry)
             THEN SlabKeys(operations') = SlabKeys(operations) \ {last'.handle}
             ELSE /\ SlabKeys(operations') = SlabKeys(operations)
                  /\ SlabGet(operations', last'.handle) = Waiting(last'.waker)]_vars

\* an entry with MORE set was delivered from a Completed slot, which is now
\* Waiting with the caller's waker
C7_Witness ==
    /\ last.call = "drive" /\ last.ret = "Ready" /\ more(last.entry)
    /\ last.wakes = << >>
    /\ SlabGet(operations, last.handle) = Waiting(last.waker)

\* C8: drive_operation on a slot in state Unclaimed(q) returns Ready with
\* the front entry of q; when entries remain the slot stays Unclaimed with
\* the rest and the caller is woken once; when none remain nobody is woken
\* and the slot is removed if e's MORE flag is clear, Waiting with the
\* caller's waker if it is set; no other slot changes.
C8_DriveUnclaimedPopsFront ==
    [][(/\ last'.call = "drive"
        /\ SlabContains(operations, last'.handle)
        /\ SlabGet(operations, last'.handle).tag = "Unclaimed") =>
          LET q == SlabGet(operations, last'.handle).entries
          IN  /\ q # << >>
              /\ last'.ret = "Ready"
              /\ last'.entry = Head(q)
              /\ OthersUnchanged(operations, operations', last'.handle)
              /\ IF Tail(q) # << >>
                 THEN /\ SlabKeys(operations') = SlabKeys(operations)
                      /\ SlabGet(operations', last'.handle) = Unclaimed(Tail(q))
                      /\ last'.wakes = <<WakeOf(last'.handle, last'.waker)>>
                 ELSE /\ last'.wakes = << >>
                      /\ IF ~more(Head(q))
                         THEN SlabKeys(operations') = SlabKeys(operations) \ {last'.handle}
                         ELSE /\ SlabKeys(operations') = SlabKeys(operations)
                              /\ SlabGet(operations', last'.handle)
                                     = Waiting(last'.waker)]_vars

\* the front of a three-entry queue was delivered with a self-wake and two
\* entries remain
C8_Witness ==
    /\ last.call = "drive" /\ last.ret = "Ready"
    /\ last.wakes = <<WakeOf(last.handle, last.waker)>>
    /\ SlabGet(operations, last.handle).tag = "Unclaimed"
    /\ Len(SlabGet(operations, last.handle).entries) = 2

\* the last queued entry was a terminal one and its slot is gone
C8_WitnessDrained ==
    /\ TerminalDelivery(last)
    /\ Len(delivered[last.serial]) >= 2
    /\ drained[last.serial] = delivered[last.serial]

\* C9: whenever the slot of a held operation is Completed or Unclaimed, the
\* task that last submitted or drove the operation has been woken since
\* that call (by tick, or by the self-wake of that drive call).
C9_BufferedEntriesImplyWoken ==
    \A s \in Serials :
        (/\ futures[s].state = "held"
         /\ SlabContains(operations, futures[s].handle)
         /\ SlabGet(operations, futures[s].handle).tag \in {"Completed", "Unclaimed"})
            => /\ parked[s].task \in Tasks
               /\ parked[s].woken

\* a drive call has left entries queued and its caller is marked woken
C9_Witness ==
    /\ last.call = "drive" /\ last.ret = "Ready"
    /\ futures[last.serial].state = "held"
    /\ SlabGet(operations, last.handle).tag = "Unclaimed"
    /\ parked[last.serial] = [task |-> last.waker, woken |-> TRUE]

\* C10: a submit_operation call that finds the submission ring full calls
\* submitter.submit() once.  If that fails the call returns Err with one
\* push attempted and the ring untouched; otherwise the kernel has consumed
\* the ring and the push is retried once, the call returning Ok exactly when
\* the entry is then in the ring.  When the call returns Err the entry is
\* neither in the ring nor with the kernel.
C10_FullRingFlushAndRetryOnce ==
    [][(last'.call = "submit" /\ Len(sq) = SqEntries) =>
          LET flushed == kernel' = Consume(kernel, sq)
              pushed == \E i \in 1..Len(sq') : sq'[i].serial = last'.serial
          IN  /\ last'.flushes = 1
              /\ last'.syscall = "submit"
              /\ last'.pushes = IF flushed THEN 2 ELSE 1
              /\ ~flushed => (sq' = sq /\ kernel' = kernel /\ last'.ret = "Err")
              /\ flushed => \A i \in 1..Len(sq') : sq'[i].serial = last'.serial
              /\ last'.ret = (IF pushed THEN "Ok" ELSE "Err")
              /\ last'.ret \in {"Ok", "Err"}
              /\ \A k \in kernel' : k.serial # last'.serial
              /\ Len(sq') <= SqEntries]_vars

\* a call found the ring full, flushed it, retried the push and returned Err
C10_Witness ==
    /\ last.call = "submit" /\ last.flushes = 1 /\ last.pushes = 2
    /\ last.ret = "Err"
    /\ sq = << >>
    /\ kernel # {}

\* a call found the ring full and its flush failed
C10_WitnessFlushFailed ==
    /\ last.call = "submit" /\ last.flushes = 1 /\ last.pushes = 1
    /\ last.ret = "Err"
    /\ Len(sq) = SqEntries

\* C11: when submit_operation is called twice in a row and the submission
\* ring had a free entry when the first call started, both calls return Ok;
\* the second, if it finds the ring full, succeeds through the inline flush
\* and retry (a flush whose syscall itself failed is set aside).
C11_TwoConsecutiveSubmitsSucceed ==
    [][(/\ last.call = "submit"
        /\ last.pushes = 1 /\ last.flushes = 0
        /\ last'.call = "submit"
        /\ ~(last'.flushes = 1 /\ last'.pushes = 1)) =>
          /\ last.ret = "Ok"
          /\ last'.ret = "Ok"]_vars

\* C13: tick makes at most one syscall before draining: submit_and_wait(1)
\* exactly when the completion ring is empty at entry, submit() exactly when
\* it is not and the submission ring has entries, none otherwise; a tick
\* that returns Ok has then drained every entry present in the completion
\* ring.
C13_TickSyncsOnceThenDrainsAll ==
    [][(last'.call = "tick") =>
          /\ last'.syscall = (IF cq = << >> THEN "submit_and_wait"
                              ELSE IF sq # << >> THEN "submit" ELSE "none")
          /\ (last'.ret = "Ok" => cq' = << >>)]_vars

\* C12: with a submission ring of one entry, each of up to three write
\* futures first polled back to back, before any tick has brought a
\* completion, is accepted: its first poll returns Pending with the handle
\* stored (a flush whose syscall itself failed is set aside).  The claim
\* goes on to say that all three then resolve; that part presupposes this
\* one.
C12_BackToBackWritesAccepted ==
    [][(/\ polled'.call = "poll"
        /\ polled'.reactor = "submit"
        /\ SqEntries = 1
        /\ issued < 3
        /\ posted = 0
        /\ \A w \in Serials : ~wrappers'[w].multi
        /\ ~(last'.flushes = 1 /\ last'.pushes = 1)) =>
          /\ last'.ret = "Ok"
          /\ polled'.ret = "Pending"
          /\ wrappers'[polled'.id].handle = last'.handle]_vars

\* the terminal entry of the operation of future or stream w has been
\* drained by tick
TerminalDrained(w) ==
    /\ wrappers[w].serial > 0
    /\ \E i \in 1..Len(drained[wrappers[w].serial]) :
          ~more(drained[wrappers[w].serial][i])

\* C14: once a future that holds a handle has been dropped, the slot of its
\* handle stays in the table, so that no later submission is given its
\* identifier, before and after tick drains the operation's entries; and no
\* tick panics.
C14_DroppedSlotStays ==
    /\ ~panicked
    /\ \A w \in Serials :
          (wrappers[w].state = "dropped" /\ wrappers[w].handle # -1) =>
             /\ SlabContains(operations, wrappers[w].handle)
             /\ \A v \in Serials :
                   wrappers[v].serial > wrappers[w].serial
                      => wrappers[v].handle # wrappers[w].handle

\* a future was dropped, tick has since drained its terminal entry into its
\* slot, and a later future was accepted under another identifier
C14_Witness ==
    \E w \in Serials, v \in Serials :
        /\ wrappers[w].state = "dropped"
        /\ wrappers[w].handle # -1
        /\ TerminalDrained(w)
        /\ SlabGet(operations, wrappers[w].handle).tag = "Completed"
        /\ wrappers[v].serial > wrappers[w].serial
        /\ wrappers[v].handle # -1
        /\ last.call = "tick" /\ last.ret = "Ok"

\* C15: when a future is dropped before its terminal entry and tick keeps
\* running after the kernel has completed the operation, the slot of the
\* operation is eventually removed from the table.
C15_DroppedSlotEventuallyRemoved ==
    \A w \in Serials :
        (wrappers[w].state = "dropped" /\ wrappers[w].handle # -1
             /\ TerminalDrained(w))
           ~> ~SlabContains(operations, wrappers[w].handle)

\* C16: a Oneshot future follows a two-phase protocol.  A poll that finds
\* no handle stored builds and submits the operation once and returns
\* Pending with the handle stored, or resolves with the submission error.
\* A poll that finds a handle stored only drives the reactor with that
\* handle: it returns Pending while the reactor does, panics on an entry
\* with MORE set, and otherwise resolves with process_completion of the
\* entry, which is an entry of the future's own operation.
C16_OneshotTwoPhase ==
    [][(polled'.call = "poll") =>
          LET w == polled'.id
              before == wrappers[w]
          IN  IF before.handle = -1
              THEN /\ polled'.reactor = "submit"
                   /\ last'.call = "submit"
                   /\ issued' = issued + 1
                   /\ IF last'.ret = "Ok"
                      THEN /\ polled'.ret = "Pending"
                           /\ wrappers'[w].handle = last'.handle
                           /\ wrappers'[w].state = "live"
                           /\ SlabContains(operations', last'.handle)
                      ELSE /\ polled'.ret = "Ready"
                           /\ polled'.item = SubmitError
                           /\ wrappers'[w].handle = -1
              ELSE /\ polled'.reactor = "drive"
                   /\ last'.call = "drive"
                   /\ last'.handle = before.handle
                   /\ issued' = issued /\ sq' = sq
                   /\ wrappers'[w].handle = before.handle
                   /\ CASE last'.ret = "Pending" ->
                             polled'.ret = "Pending" /\ wrappers'[w] = before
                        [] last'.ret = "Ready" /\ more(last'.entry) ->
                             polled'.ret = "Panic"
                        [] last'.ret = "Ready" /\ ~more(last'.entry) ->
                             /\ polled'.ret = "Ready"
                             /\ polled'.item = process_completion(last'.entry)
                             /\ last'.entry.serial = before.serial
                             /\ last'.entry.user_data = before.handle
                        [] OTHER -> FALSE]_vars

\* the second future resolved with the entry of its own operation, which
\* ran under the identifier recycled from the first
C16_Witness ==
    /\ polled.call = "poll" /\ polled.ret = "Ready" /\ polled.id = 2
    /\ polled.item.tag = "Output"
    /\ polled.item.entry.serial = wrappers[2].serial
    /\ polled.item.entry.user_data = 0
    /\ wrappers[1].state = "resolved" /\ wrappers[1].handle = 0

\* a future over a multishot opcode panicked on an entry with MORE set
C16_WitnessPanic ==
    /\ polled.call = "poll" /\ polled.ret = "Panic"
    /\ more(last.entry)

\* C17 as claimed: build_submission is invoked in the first poll of a
\* future or stream and in no later poll, so exactly once for the operation.
C17_BuildSubmissionOnce ==
    [][(polled'.call \in {"poll", "poll_next"}) =>
          polled'.builds = (IF wrappers[polled'.id].builds = 0 THEN 1 ELSE 0)]_vars

\* C17 as amended: build_submission is invoked exactly once in every poll
\* that finds no handle stored (the first poll, and every poll of a stream
\* that follows a failed submission), together with that poll's one
\* submit_operation call, and never in a poll that finds a handle stored.
C17_BuildSubmissionPerSubmission ==
    [][(polled'.call \in {"poll", "poll_next"}) =>
          LET w == polled'.id
              before == wrappers[w]
          IN  /\ polled'.builds = (IF before.handle = -1 THEN 1 ELSE 0)
              /\ wrappers'[w].builds = before.builds + polled'.builds
              /\ (polled'.builds = 1) <=> (polled'.reactor = "submit")
              /\ (polled'.builds = 1) <=>
                    (SlabKeys(operations') \ SlabKeys(operations) # {})]_vars

\* a stream whose first submission failed submitted its operation again,
\* building it a second time, and was accepted
C17_Witness ==
    /\ polled.call = "poll_next" /\ polled.builds = 1
    /\ wrappers[polled.id].builds = 2
    /\ wrappers[polled.id].handle # -1

\* the terminal entry of the operation of stream w has been returned Ready
TerminalYielded(w) ==
    /\ wrappers[w].serial > 0
    /\ \E i \in 1..Len(delivered[wrappers[w].serial]) :
          ~more(delivered[wrappers[w].serial][i])

\* C18: a poll of a stream that drives the reactor yields exactly one item
\* for an entry returned Ready, built from that entry, and none when the
\* reactor is Pending; the entry with MORE clear marks the stream finished,
\* after which every poll returns end-of-stream without calling the
\* reactor; size_hint is (1, None) in every state before that entry is
\* yielded and (0, Some(0)) in every state after.
C18_StreamYieldsOnePerEntry ==
    [][/\ (polled'.call = "poll_next" =>
            LET w == polled'.id
                before == wrappers[w]
            IN  IF before.finished
                THEN /\ polled'.ret = "Ready"
                     /\ polled'.item = EndOfStream
                     /\ polled'.reactor = "none"
                     /\ wrappers' = wrappers
                     /\ UNCHANGED reactorVars
                ELSE IF before.handle # -1
                THEN /\ polled'.reactor = "drive"
                     /\ last'.call = "drive"
                     /\ last'.handle = before.handle
                     /\ IF last'.ret = "Ready"
                        THEN /\ polled'.ret = "Ready"
                             /\ polled'.item = process_completion(last'.entry)
                             /\ last'.entry.serial = before.serial
                             /\ wrappers'[w].finished = ~more(last'.entry)
                             /\ delivered'[before.serial]
                                   = Append(delivered[before.serial], last'.entry)
                        ELSE /\ polled'.ret = "Pending"
                             /\ polled'.item = NoItem
                             /\ wrappers'[w] = before
                             /\ delivered' = delivered
                ELSE polled'.item.tag # "Output")
       /\ \A w \in Serials :
             wrappers'[w].kind = "multishot" =>
                size_hint(wrappers'[w]) =
                   (IF TerminalYielded(w)' THEN [lower |-> 0, upper |-> 0]
                    ELSE [lower |-> 1, upper |-> -1])]_vars

\* a stream yielded three items, the last from the entry with MORE clear,
\* and its next poll returned end-of-stream
C18_Witness ==
    /\ polled.call = "poll_next" /\ polled.item = EndOfStream
    /\ Len(delivered[wrappers[polled.id].serial]) = 3
    /\ size_hint(wrappers[polled.id]) = [lower |-> 0, upper |-> 0]

\* C19: process_completion of every catalog operation but Raw maps an entry
\* with negative result r to an error carrying OS error code -r and an
\* entry with non-negative result to a success value: the byte count for
\* Write and Splice, unit for Shutdown, Close and Cancel (the grown buffer
\* for Read, the socket for Accept); Raw returns the entry unchanged.
C19_InterpretMapsResult ==
    interpreted.op # "none" =>
       LET op == interpreted.op
           r == interpreted.entry.result
           out == interpreted.output
       IN  IF op = "Raw"
           THEN out.tag = "Ok" /\ out.kind = "entry" /\ out.entry = interpreted.entry
           ELSE /\ r < 0 => (out.tag = "Err" /\ out.kind = "os" /\ out.n = 0 - r)
                /\ r >= 0 =>
                      /\ out.tag = "Ok"
                      /\ op \in {"Write", "Splice"} => (out.kind = "usize" /\ out.n = r)
                      /\ op \in {"Shutdown", "Close", "Cancel"} => out.kind = "unit"
                      /\ op = "Read" => (out.kind = "buffer" /\ out.n = interpreted.len + r)
                      /\ op = "Accept" => (out.kind = "socket" /\ out.n = r)

\* a Write completed with result -2 and was made the error with code 2
C19_Witness ==
    /\ interpreted.op = "Write"
    /\ interpreted.entry.result = 0 - 2
    /\ interpreted.output = from_raw_os_error(2)

\* a Raw operation returned an entry with a negative result as a success
C19_WitnessRaw ==
    /\ interpreted.op = "Raw"
    /\ interpreted.entry.result < 0
    /\ interpreted.output.tag = "Ok"

\* C20: Executor::spawn runs the new task once before it returns; a task
\* whose future completed in that first run is never pushed on the
\* executor's queue, and a task whose future did not complete is pushed
\* only by a wake of its waker.
C20_SpawnRunsOnceEagerly ==
    [][\A t \in Spawns :
          /\ (runnables[t].state = "none" /\ runnables'[t].state # "none") =>
                /\ ran'.call = "spawn" /\ ran'.task = t
                /\ runnables'[t].polls = 1
                /\ runnables'[t].first = ran'.outcome
                /\ runnables'[t].first = "Ready" => runnables'[t].state = "completed"
                /\ runnables'[t].first = "Pending" => t \notin Range(tasks')
          /\ runnables'[t].first = "Ready" =>
                /\ runnables'[t].pushes = 0
                /\ t \notin Range(tasks')
          /\ runnables'[t].pushes > runnables[t].pushes =>
                runnables'[t].wakes > runnables[t].wakes
          /\ (t \in Range(tasks') /\ t \notin Range(tasks)) =>
                runnables'[t].wakes > runnables[t].wakes]_vars

\* one task completed in the run spawn gave it and never touched the queue,
\* another returned Pending from it and sits in the queue since a later wake
C20_Witness ==
    \E t, u \in Spawns :
       /\ runnables[t].first = "Ready" /\ runnables[t].polls = 1
       /\ runnables[t].wakes > 0
       /\ runnables[u].first = "Pending" /\ runnables[u].polls = 1
       /\ tasks = <<u>>
       /\ ran = Ran("wake", u, "None")

\* s is an initial part of t
IsPrefix(s, t) == Len(s) <= Len(t) /\ SubSeq(t, 1, Len(s)) = s

\* C21: Executor::tick runs runnables in the order they were enqueued: an
\* iteration of tick runs the runnable at the front of the queue and removes
\* it, every runnable enqueued (by spawn, by a wake, or by the task run in
\* this iteration) goes behind all earlier ones, so one enqueued while tick
\* is running is run by the same invocation after them, and tick returns
\* only on an empty queue.
C21_TickRunsInFifoOrder ==
    [][/\ ran'.call = "tick" =>
             /\ tasks # << >>
             /\ ran'.task = Head(tasks)
             /\ runnables'[ran'.task].polls = runnables[ran'.task].polls + 1
             /\ \A u \in Spawns \ {ran'.task} : runnables'[u] = runnables[u]
             /\ \/ tasks' = Tail(tasks)
                \/ tasks' = Append(Tail(tasks), ran'.task)
             /\ ticking'
       /\ ran'.call \in {"spawn", "wake"} =>
             /\ \/ tasks' = tasks
                \/ tasks' = Append(tasks, ran'.task)
             /\ ticking' = ticking
       /\ ran'.call = "tick_return" =>
             /\ tasks = << >> /\ tasks' = << >> /\ ~ticking'
             /\ runnables' = runnables
       /\ (ticking /\ ~ticking') => ran'.call = "tick_return"]_vars

\* tick is running: the iteration it just made ran task t, which woke
\* itself and was enqueued behind u, enqueued before it
C21_Witness ==
    \E t, u \in Spawns :
       /\ t # u
       /\ ticking
       /\ ran = Ran("tick", t, "PendingWoken")
       /\ tasks = <<u, t>>

\* tick returned after running every runnable, two of them of one task
C21_WitnessReturned ==
    /\ ran.call = "tick_return" /\ ~ticking /\ tasks = << >>
    /\ \E t \in Spawns : runnables[t].polls = 3 /\ runnables[t].state = "completed"

\* C22: block_on alternates polls of the future and calls of the ticker,
\* starting with a poll, with exactly one ticker call between two
\* consecutive polls; it returns Ok(output) at the first poll that is Ready
\* and Err(e) at the first ticker call that fails, and makes no call after
\* it returned.
C22_BlockOnAlternates ==
    [][\A l \in Loops :
          LET before == loops[l]
              after == loops'[l]
          IN  /\ before.ret # NoReturn => after = before
              /\ after.polls > before.polls =>
                    /\ stepped' = Stepped(l, "poll", stepped'.outcome)
                    /\ after.polls = before.polls + 1
                    /\ after.ticks = before.ticks
                    /\ before.polls = before.ticks
                    /\ IF stepped'.outcome.tag = "Ready"
                       THEN after.ret = [tag |-> "Ok", value |-> stepped'.outcome.value]
                       ELSE after.ret = NoReturn
              /\ after.ticks > before.ticks =>
                    /\ stepped' = Stepped(l, "ticker", stepped'.outcome)
                    /\ after.ticks = before.ticks + 1
                    /\ after.polls = before.polls
                    /\ before.polls = before.ticks + 1
                    /\ IF stepped'.outcome.tag = "Err"
                       THEN after.ret = [tag |-> "Err", value |-> stepped'.outcome.value]
                       ELSE after.ret = NoReturn
              /\ after.ret.tag = "Ok" => after.polls = after.ticks + 1
              /\ after.ret.tag = "Err" => after.polls = after.ticks
              /\ after # before => (after.polls + after.ticks = before.polls + before.ticks + 1)]_vars

\* one block_on returned the output of its third poll after two ticker
\* calls, another returned the error of its second ticker call
C22_Witness ==
    \E l, k \in Loops :
       /\ loops[l].ret = [tag |-> "Ok", value |-> "a"]
       /\ loops[l].polls = 3 /\ loops[l].ticks = 2
       /\ loops[k].ret = [tag |-> "Err", value |-> "b"]
       /\ loops[k].polls = 2 /\ loops[k].ticks = 2

\* C24: a cell has at most one live guard at a time: assume_unique_access
\* panics with "already borrowed" when a guard of the cell is alive and
\* grants a guard otherwise, and the drop of the guard makes the next
\* acquisition succeed.
C24_AtMostOneGuard ==
    [][/\ \A c \in Cells :
             /\ cells'[c].live <= 1
             /\ cells'[c].borrowed <=> (cells'[c].live = 1)
       /\ accessed'.call = "assume_unique_access" =>
             LET c == accessed'.cell
             IN  IF cells[c].live > 0
                 THEN /\ accessed'.ret = "already borrowed"
                      /\ cells'[c] = cells[c]
                 ELSE /\ accessed'.ret = "Ok"
                      /\ cells'[c].live = 1
                      /\ cells'[c].granted = cells[c].granted + 1
       /\ accessed'.call = "drop" =>
             LET c == accessed'.cell
             IN  /\ cells'[c].live = 0
                 /\ ~cells'[c].borrowed
                 /\ AssumeUniqueAccess(cells'[c]).ret = "Ok"]_vars

\* an acquisition of a held cell has panicked and left the guard alive
C24_Witness ==
    /\ accessed.call = "assume_unique_access"
    /\ accessed.ret = "already borrowed"
    /\ cells[accessed.cell].live = 1

\* a cell was acquired again after its first guard was dropped
C24_WitnessReacquired ==
    /\ accessed.call = "assume_unique_access"
    /\ accessed.ret = "Ok"
    /\ cells[accessed.cell].granted = 2
    /\ cells[accessed.cell].live = 1

\* the last submit_operation call of the adapters
LastSqe(log) == log[Len(log)]

\* poll_read, its read slot being p, has called read(2) once and acted on
\* its result as C25 says
ReadSyscallRule(p) ==
    /\ io'.syscalls = 1
    /\ io'.out.kind \notin {"Interrupted", "WouldBlock"}
    /\ \/ /\ io'.ret = "Ready" /\ io'.out.tag = "Ok" /\ io'.out.kind = "usize"
          /\ io'.sqes = 0 /\ ~io'.selfwake
          /\ pollio' = p /\ submitted' = submitted
       \/ /\ io'.ret = "Pending" /\ io'.selfwake
          /\ io'.sqes = 0
          /\ pollio' = p /\ submitted' = submitted /\ pending' = pending
       \/ /\ io'.ret = "Pending" /\ ~io'.selfwake
          /\ io'.sqes = 1
          /\ Len(submitted') = Len(submitted) + 1
          /\ LastSqe(submitted').opcode = "PollAdd(POLLIN)"
          /\ LastSqe(submitted').accepted
          /\ ~LastSqe(submitted').buffer
          /\ LastSqe(submitted') \in pending'
          /\ pollio' = [p EXCEPT !.read = LastSqe(submitted').user_data]
          /\ SlabContains(operations', pollio'.read)
       \/ /\ io'.ret = "Ready" /\ io'.out = IoError("Other")
          /\ io'.sqes = 0
          /\ pollio' = p /\ submitted' = submitted
       \/ /\ io'.ret = "Ready" /\ io'.out = IoError("Submission")
          /\ io'.sqes = 1
          /\ Len(submitted') = Len(submitted) + 1
          /\ ~LastSqe(submitted').accepted
          /\ pollio' = p /\ pending' = pending

\* the whole of poll_read as C25 describes it
PollReadRule ==
    IF pollio.read = -1
    THEN io'.drove = -1 /\ ReadSyscallRule(pollio)
    ELSE /\ io'.drove = pollio.read
         /\ IF SlabGet(operations, pollio.read).tag = "Waiting"
            THEN /\ io'.ret = "Pending" /\ io'.syscalls = 0 /\ io'.sqes = 0
                 /\ pollio' = pollio
            ELSE /\ io'.entry = SlabGet(operations, pollio.read).entry
                 /\ IF io'.entry.result < 0
                    THEN /\ io'.ret = "Ready"
                         /\ io'.out = from_raw_os_error(0 - io'.entry.result)
                         /\ io'.syscalls = 0 /\ io'.sqes = 0
                         /\ pollio' = [pollio EXCEPT !.read = -1]
                    ELSE ReadSyscallRule([pollio EXCEPT !.read = -1])

C25_WitnessInterrupted ==
    /\ io.call = "poll_read" /\ io.ret = "Pending" /\ io.selfwake
    /\ io.syscalls = 1 /\ io.sqes = 0

\* C26: poll_write mirrors poll_read with POLLOUT: what it submits is a
\* POLLOUT readiness operation, so that no entry submitted by poll_write
\* carries a pointer to the caller's buffer.
C26_WriteSubmitsNoBufferPointer ==
    \A i \in 1..Len(submitted) :
       submitted[i].by = "write" =>
          submitted[i].opcode = "PollAdd(POLLOUT)" /\ ~submitted[i].buffer

\* the opcode of the submission whose completion entry e is
OpcodeOf(log, e) ==
    IF \E i \in 1..Len(log) : log[i].serial = e.serial
    THEN (CHOOSE r \in Range(log) : r.serial = e.serial).opcode
    ELSE "none"

\* a call made a submission
Submits == Len(submitted') = Len(submitted) + 1

\* poll_shutdown with a read handle and no shutdown handle submits one
\* AsyncCancel naming the read handle, keeps its handle and returns Pending
ShutdownCancelsRead ==
    (pollio.read # -1 /\ pollio.shutdown = -1) =>
       /\ Submits /\ io'.sqes = 1
       /\ LastSqe(submitted').opcode = "AsyncCancel"
       /\ LastSqe(submitted').target = pollio.read
       /\ LastSqe(submitted').accepted =>
             /\ io'.ret = "Pending"
             /\ pollio' = [pollio EXCEPT !.shutdown = LastSqe(submitted').user_data]

\* on the entry of the handle in the shutdown slot, a read handle being
\* held, it clears both slots, and wakes itself and returns Pending unless
\* the result is negative
ShutdownClearsRead ==
    (pollio.read # -1 /\ pollio.shutdown # -1
        /\ SlabGet(operations, pollio.shutdown).tag = "Completed") =>
       /\ ~Submits /\ io'.sqes = 0
       /\ pollio' = [pollio EXCEPT !.read = -1, !.shutdown = -1]
       /\ io'.entry.result >= 0 => io'.ret = "Pending" /\ io'.selfwake

\* a Shutdown entry is submitted only with the read slot empty
ShutdownAfterRead ==
    (Submits /\ LastSqe(submitted').opcode = "Shutdown") => pollio.read = -1

\* Ready(Ok) is returned only on the non-negative entry of a Shutdown
ShutdownOkOnlyOnShutdownEntry ==
    (io'.ret = "Ready" /\ io'.out.tag = "Ok") =>
       /\ io'.drove # -1
       /\ OpcodeOf(submitted, io'.entry) = "Shutdown"
       /\ io'.entry.result >= 0

\* C27: poll_shutdown with a read in flight submits one AsyncCancel naming
\* the read handle and returns Pending; on the cancel's entry it clears the
\* read slot and the shutdown slot, wakes itself and returns Pending; the
\* next poll submits one Shutdown; Ready(Ok) is returned only after the
\* Shutdown's entry with non-negative result has been received; and no
\* Shutdown is submitted while the read slot is occupied.
C27_ShutdownCancelsReadFirst ==
    [][(io'.call = "poll_shutdown" /\ io'.ret # "Panic") =>
          /\ ShutdownCancelsRead
          /\ ShutdownClearsRead
          /\ ShutdownAfterRead
          /\ ShutdownOkOnlyOnShutdownEntry]_vars

\* C28: poll_shutdown called while a write is in flight and no read is in
\* flight submits an AsyncCancel naming the write handle and waits for its
\* entry before any Shutdown is submitted: no Shutdown is submitted while
\* the write slot is occupied.
C28_ShutdownCancelsWriteFirst ==
    [][(io'.call = "poll_shutdown" /\ io'.ret # "Panic"
          /\ pollio.write # -1 /\ pollio.read = -1) =>
          /\ pollio.shutdown = -1 =>
                /\ Submits
                /\ LastSqe(submitted').opcode = "AsyncCancel"
                /\ LastSqe(submitted').target = pollio.write
          /\ ~(Submits /\ LastSqe(submitted').opcode = "Shutdown")]_vars

\* the direction a call belongs to
Direction(call) ==
    CASE call = "poll_read" -> "read"
      [] call = "poll_write" -> "write"
      [] call = "poll_shutdown" -> "shutdown"
      [] call = "poll_close" -> "close"
      [] OTHER -> "none"

\* the direction that submitted the operation in flight under handle h
SubmittedBy(log, h) ==
    LET own == {i \in 1..Len(log) : log[i].user_data = h /\ log[i].accepted}
    IN  IF own = {} THEN "none"
        ELSE log[CHOOSE i \in own : \A j \in own : j <= i].by

\* C29: the four handles are independent: in every interleaving of
\* poll_read, poll_write, poll_shutdown and poll_close on one PollIo, the
\* handle a call drives, and the entry it consumes, belong to an operation
\* its own direction submitted, and a call that starts an operation leaves
\* the handles of the other directions as they were.
C29_DirectionsIndependent ==
    [][(Direction(io'.call) # "none" /\ io'.ret # "Panic") =>
          /\ io'.drove # -1 => SubmittedBy(submitted, io'.drove) = Direction(io'.call)
          /\ Submits =>
                \A d \in {"read", "write", "shutdown", "close"} \ {Direction(io'.call)} :
                   pollio'[d] = pollio[d]]_vars

\* a poll_write consumed the entry of an operation it had submitted while
\* a read handle was in flight, and the read handle is still in place
C29_Witness ==
    /\ io.call = "poll_write" /\ io.ret = "Ready"
    /\ io.drove # -1 /\ io.entry # NoEntry
    /\ pollio.read # -1 /\ pollio.write = -1

\* C30: a Cancel naming the identifier of an operation that has completed
\* and whose slot has been removed resolves with not-found (ENOENT) and
\* has no effect on any other operation: an operation submitted later
\* under the recycled identifier is not cancelled and receives its own
\* completion.
C30_StaleCancelHitsNothing ==
    [][/\ (io'.call = "poll" /\ io'.ret = "Ready"
             /\ OpcodeOf(submitted, io'.entry) = "AsyncCancel") =>
             io'.out = from_raw_os_error(2)
       /\ \A q \in pending' : ~q.cancelled
       /\ (io'.call = "poll" /\ io'.ret = "Ready"
             /\ OpcodeOf(submitted, io'.entry) = "Raw") =>
             io'.entry.result # 0 - 125]_vars

\* a task has been told that the operation it submitted under a recycled
\* identifier was cancelled
C30_SuccessorCancelled ==
    /\ io.call = "poll" /\ io.ret = "Ready"
    /\ OpcodeOf(submitted, io.entry) = "Raw"
    /\ io.entry.result = 0 - 125

\* a Cancel of a completed operation, nothing else in flight under its
\* identifier, resolved with not-found
C30_NotFound ==
    /\ io.call = "poll" /\ io.ret = "Ready"
    /\ OpcodeOf(submitted, io.entry) = "AsyncCancel"
    /\ io.out = from_raw_os_error(2)

\* the tasks a tick woke
Woken(wakes) == {wakes[i].waker : i \in 1..Len(wakes)}

\* C23: the wakes of Reactor::tick only enqueue: during Reactor::tick no
\* task is polled, no future is polled and no drive_operation or
\* submit_operation call is made, and an idle task the tick woke is
\* scheduled with its runnable on the queue; a task runs only in
\* Executor::tick (or in the spawn that created it), and Executor::tick
\* does not return before every scheduled task has run: the woken task
\* first runs in the next Executor::tick of the ticker.
C23_TickOnlyEnqueues ==
    [][/\ loops'[Main].ticks # loops[Main].ticks =>
             /\ ran'.call = "reactor.tick" /\ last'.call = "tick"
             /\ wrappers' = wrappers
             /\ polled'.call = "none"
             /\ \A t \in Spawns : runnables'[t].polls = runnables[t].polls
             /\ \A t \in Woken(last'.wakes) :
                   runnables[t].state = "idle" =>
                      /\ runnables'[t].state = "scheduled"
                      /\ t \in Range(tasks')
             /\ \A t \in Spawns \ Woken(last'.wakes) : runnables'[t] = runnables[t]
       /\ \A t \in Spawns :
             runnables'[t].polls # runnables[t].polls =>
                /\ ran'.task = t
                /\ \/ ran'.call = "spawn" /\ runnables[t].state = "none"
                   \/ /\ ran'.call = "tick" /\ ticking'
                      /\ runnables[t].state = "scheduled" /\ Head(tasks) = t
       /\ ran'.call = "tick_return" =>
             \A t \in Spawns : runnables'[t].state # "scheduled"]_vars

\* a task that a Reactor::tick woke has been run by Executor::tick and its
\* future has taken the entry
C23_Witness ==
    /\ ran.call = "tick" /\ ran.task \in RuntimeTasks
    /\ runnables[ran.task].wakes > 0
    /\ polled.call = "poll" /\ polled.ret = "Ready" /\ polled.reactor = "drive"

\* a Reactor::tick has woken an idle task: it is scheduled and not yet run
C23_WitnessWoken ==
    /\ ran.call = "reactor.tick"
    /\ last.wakes # << >>
    /\ \E t \in Woken(last.wakes) :
          runnables[t].state = "scheduled" /\ t \in Range(tasks)

\* C37: a slot in state Unclaimed holds at least one entry, so the branch
\* of drive_operation that returns Pending for an empty queue is never
\* taken, and every entry of an Unclaimed queue but the last has its MORE
\* flag set.
C37_UnclaimedNeverEmpty ==
    /\ \A key \in SlabKeys(operations) :
          SlabGet(operations, key).tag = "Unclaimed" =>
             LET entries == SlabGet(operations, key).entries
             IN  /\ entries # << >>
                 /\ \A i \in 1..(Len(entries) - 1) : more(entries[i])
    /\ (last.call = "drive" /\ last.ret = "Pending") =>
          /\ SlabContains(operations, last.handle)
          /\ SlabGet(operations, last.handle).tag # "Unclaimed"

\* a drive took the first of two queued entries and left the slot
\* Unclaimed with the one that remains
C37_Witness ==
    /\ last.call = "drive" /\ last.ret = "Ready"
    /\ SlabContains(operations, last.handle)
    /\ SlabGet(operations, last.handle).tag = "Unclaimed"
    /\ Len(SlabGet(operations, last.handle).entries) = 1

\* C33: the slot lookup of tick never fails: every entry tick drains names
\* a slot that is in the table, whatever the interleaving of submissions,
\* drives, ticks and drops of futures.
C33_TickLookupNeverFails ==
    last.call = "tick" => last.ret # "Panic"

C33_Witness ==
    /\ last.call = "tick" /\ last.ret = "Ok"
    /\ last.syscall # "submit_and_wait"
    /\ \E w \in Serials :
          /\ wrappers[w].state = "dropped"
          /\ wrappers[w].handle # -1
          /\ drained[wrappers[w].serial] # << >>
          /\ SlabContains(operations, wrappers[w].handle)
          /\ SlabGet(operations, wrappers[w].handle).tag = "Completed"

\* C34: when submit_operation returns Err the slot table is the one the
\* call found: no slot was added for the failed submission and the
\* identifier it would have had is still vacant.
C34_FailedSubmitLeavesTable ==
    [][(issued' # issued /\ last'.call = "submit" /\ last'.ret = "Err") =>
          /\ operations' = operations
          /\ ~SlabContains(operations', operations.next)]_vars

\* the per-direction handle fields of PollIo
Directions == {"read", "write", "shutdown", "close"}

\* C38: whenever a PollIo call sets one of its per-direction handles to
\* None, that call drove the handle's operation to its terminal entry, so
\* the slot the handle named has left the reactor's table before the handle
\* is forgotten.
C38_ClearedHandleWasDelivered ==
    [][\A d \in Directions :
          (pollio[d] # -1 /\ pollio'[d] = -1) =>
             /\ io'.drove = pollio[d]
             /\ io'.entry # NoEntry
             /\ SlabContains(operations, pollio[d])
             /\ \/ ~SlabContains(operations', pollio[d])
                \/ io'.sqes > 0]_vars

\* poll_shutdown took its cancellation arm: a direction handle and the
\* shutdown handle were both set and the driven handle gave an entry
CancelResultConsumed ==
    /\ io'.call = "poll_shutdown"
    /\ pollio.shutdown # -1
    /\ SlotValue(pollio, Remaining(pollio)) # -1
    /\ io'.drove = pollio.shutdown
    /\ io'.entry # NoEntry

\* C39: the entry poll_shutdown consumes as the result of its cancellation
\* is the entry of an AsyncCancel, and a Shutdown whose entry is consumed
\* with a non-negative result resolves the shutdown with Ready(Ok), so no
\* second Shutdown is submitted for it; a read that goes in flight after the
\* Shutdown was submitted does not make the Shutdown's entry a cancel result.
C39_CancelResultIsCancelEntry ==
    [][/\ CancelResultConsumed =>
             OpcodeOf(submitted, io'.entry) = "AsyncCancel"
       /\ (/\ io'.call = "poll_shutdown"
           /\ io'.entry # NoEntry
           /\ OpcodeOf(submitted, io'.entry) = "Shutdown"
           /\ io'.entry.result >= 0) =>
             (io'.ret = "Ready" /\ io'.out.tag = "Ok")]_vars

\* the entries of the completion ring that name slot `key`, in ring order
EntriesFor(completion, key) ==
    SelectSeq(completion, LAMBDA e : e.user_data = key)

\* tick drains the completion ring in this step
Drains == last'.call = "tick" /\ last'.ret = "Ok" /\ cq # << >> /\ cq' = << >>

\* C40: in the reactor with the state Submitted, a slot submitted with no
\* waker starts as Submitted; an entry arriving for a Submitted slot makes
\* it Completed and wakes no one, and the first drive call returns that
\* entry; a drive call on a Submitted slot makes it Waiting with the
\* caller's waker and returns Pending, and an entry arriving for a Waiting
\* slot wakes its waker.
C40_SubmittedState ==
    [][/\ (issued' # issued /\ last'.call = "submit" /\ last'.ret = "Ok") =>
             SlabGet(operations', last'.handle) =
                IF last'.waker = NoWaker THEN Submitted ELSE Waiting(last'.waker)
       /\ Drains =>
             \A key \in SlabKeys(operations) :
                LET slot == SlabGet(operations, key)
                    entries == EntriesFor(cq, key)
                IN  /\ (slot.tag = "Submitted" /\ entries # << >>) =>
                          /\ SlabGet(operations', key) =
                                IF Len(entries) = 1 THEN Completed(entries[1])
                                ELSE Unclaimed(entries)
                          /\ \A w \in Range(last'.wakes) : w.key # key
                    /\ (slot.tag = "Waiting" /\ entries # << >>) =>
                          WakeOf(key, slot.waker) \in Range(last'.wakes)
       /\ (/\ last'.call = "drive"
           /\ SlabContains(operations, last'.handle)
           /\ SlabGet(operations, last'.handle).tag = "Submitted") =>
             /\ operations' = SlabSet(operations, last'.handle,
                                      Waiting(last'.waker))
             /\ last'.ret = "Pending"
       /\ (/\ last'.call = "drive"
           /\ last' # last
           /\ SlabContains(operations, last'.handle)
           /\ SlabGet(operations, last'.handle).tag = "Completed"
           /\ parked[last'.serial] = NoPark) =>
             /\ last'.ret = "Ready"
             /\ last'.entry = SlabGet(operations, last'.handle).entry
             /\ delivered'[last'.serial] = <<last'.entry>>]_vars

C40_Witness ==
    /\ last.call = "tick" /\ last.ret = "Ok"
    /\ \E s \in Serials, t \in Serials :
          /\ futures[s].state = "held" /\ futures[t].state = "held"
          /\ parked[s] = NoPark
          /\ SlabGet(operations, futures[s].handle).tag = "Completed"
          /\ \A w \in Range(last.wakes) : w.key # futures[s].handle
          /\ parked[t].woken
          /\ WakeOf(futures[t].handle, parked[t].task) \in Range(last.wakes)

\* C36: no call of Executor::spawn, Executor::tick, a wake-up,
\* submit_operation, drive_operation or Reactor::tick, however nested on the
\* one thread, acquires a cell whose guard is alive: no acquisition ends in
\* the "already borrowed" panic and no cell ever has two guards, also when
\* a task is woken under the slot-table guard of tick or drive and when a
\* running task spawns or schedules a task.
C36_NoCellReentered ==
    /\ accessed.ret # "already borrowed"
    /\ \A c \in Cells : cells[c].live <= 1 /\ (cells[c].borrowed <=> cells[c].live = 1)
    /\ frames = << >> => \A c \in Cells : ~cells[c].borrowed

\* tick woke a task while it held the guards of the ring and of the slot
\* table, after a task running inside Executor::tick had been scheduled
C36_Witness ==
    /\ At("Reactor::tick", "entry")
    /\ accessed = Accessed("assume_unique_access", "tasks", "Ok")
    /\ cells["ring"].borrowed /\ cells["operations"].borrowed
    /\ ~cells["tasks"].borrowed
    /\ cells["tasks"].granted >= 2

\* nothing is in flight: the rings are empty and the kernel holds no
\* operation
NothingInFlight == sq = << >> /\ cq = << >> /\ kernel = {}

\* the task block_on awaits has finished in the iteration of Executor::tick
\* that just ran it, the queue of the executor is empty and nothing is in
\* flight
FinishedDuringExecutorTick ==
    /\ ~Aborted
    /\ loops[Main].pc = "ticker" /\ loops[Main].polls < MaxPolls
    /\ ran = Ran("tick", 1, "Ready")
    /\ runnables[1].state = "completed"
    /\ tasks = << >>
    /\ NothingInFlight

\* C35: with the ticker `executor.tick(); reactor.tick()`, when the task
\* block_on awaits finishes during executor.tick while no operation is in
\* flight, block_on returns: the ticker comes back and the next poll of the
\* task yields its output (or the ticker fails and block_on returns its
\* error).
C35_BlockOnReturnsFinishedTask ==
    FinishedDuringExecutorTick ~> (loops[Main].pc = "returned")

\* a Close entry naming the descriptor of the PollIo has been submitted
CloseSubmitted ==
    \E i \in 1..Len(submitted) :
       submitted[i].opcode = "Close" /\ submitted[i].accepted

\* C32: once a Close entry for the descriptor has been submitted, no later
\* step closes the same descriptor number again: the drop of the PollIo
\* makes no close(2) on it and no second Close entry is submitted for it.
C32_DescriptorClosedOnce ==
    [][CloseSubmitted =>
          /\ ~(io'.call = "drop" /\ io'.syscalls > 0 /\ pollio'.file # pollio.file)
          /\ ~(Submits /\ LastSqe(submitted').opcode = "Close"
                       /\ LastSqe(submitted').accepted)]_vars

\* submission j is a Cancel naming the identifier of the long-running
\* operation of submission i, and both are in flight
CancelNames(i, j) ==
    /\ i \in 1..Len(submitted) /\ j \in 1..Len(submitted)
    /\ submitted[i].opcode = "Raw" /\ submitted[j].opcode = "AsyncCancel"
    /\ submitted[j].target = submitted[i].user_data
    /\ Inflight(i) /\ Inflight(j)

\* the future of submission i has resolved and its slot has left the
\* table: the identifier is vacant or a later submission has it
Resolved(i) ==
    /\ i \in 1..Len(submitted)
    /\ Consumed(IoNow, i)
    /\ \/ ~SlabContains(operations, submitted[i].user_data)
       \/ \E k \in (i + 1)..Len(submitted) :
             submitted[k].user_data = submitted[i].user_data

\* C31: when a long-running operation and a Cancel naming its handle are
\* both submitted and the runtime keeps ticking and polling, both futures
\* eventually resolve and both slots are removed from the table; the
\* operation resolves with the kernel's cancelled result (-ECANCELED) and
\* the Cancel with success.
C31_CancelledPairResolves ==
    /\ \A i \in 1..MaxSqes : \A j \in (i + 1)..MaxSqes :
          CancelNames(i, j) ~> (Resolved(i) /\ Resolved(j))
    /\ [][(io'.call = "poll" /\ io'.ret = "Ready") =>
             IF OpcodeOf(submitted, io'.entry) = "AsyncCancel"
             THEN io'.out = Ok("unit", 0, << >>)
             ELSE /\ io'.out = Ok("entry", 0, io'.entry)
                  /\ io'.entry.result = 0 - 125]_vars

\* the cancelled operation has resolved with -ECANCELED after its Cancel
\* resolved
C31_Witness ==
    /\ io.call = "poll" /\ io.ret = "Ready"
    /\ OpcodeOf(submitted, io.entry) = "Raw"
    /\ io.entry.result = 0 - 125
    /\ \E j \in 1..Len(submitted) :
          /\ submitted[j].opcode = "AsyncCancel"
          /\ submitted[j].target = io.entry.user_data
          /\ Resolved(j) /\ Resolved(io.entry.serial)

====
